---- MODULE Spec2Model ----
(***************************************************************************)
(* Generational cycle collector of python-gc: the facade                   *)
(* (gc.rs, GarbageCollector), the collector (collector.rs, Collector),     *)
(* the generations (generation.rs) and the object header (object.rs).      *)
(*                                                                         *)
(* A PyObject is identified by its ObjectId.  Clones of a PyObject share   *)
(* the refcount (Arc<AtomicUsize>) and the payload (Arc<RwLock<..>>), so   *)
(* these two live in the host variables refcount, data and payload; the    *)
(* per-copy fields (gc_tracked, gc_head) live in the copy the generation   *)
(* holds.                                                                  *)
(***************************************************************************)
EXTENDS Integers, FiniteSets, Sequences, TLC

\* ---------------------------------------------------------------- bounds
NumObjs == 2
MaxRefcount == 2
MaxUncollectable == 2
MaxThreshold == 2
NumThreads == 2
MaxIds == 5
MaxPasses == 2
MaxCount == 3
MaxEdges == 3
UsizeBits == 3

Objs == 1..NumObjs
Generations == 0..2
\* generation indices a caller may pass; 3 is the first invalid one
GenArgs == 0..3
\* thresholds a caller may pass to set_threshold
ThresholdArgs == 0..MaxThreshold
DataKinds == {"List", "Custom"}
Threads == 1..NumThreads
\* the pointers the host passes to the boundary: 0 is null, o > 0 points
\* to object o
Ptrs == 0..NumObjs

VARIABLES
    collector,      \* the Collector behind the facade's lock
    enabled,        \* GarbageCollector.enabled
    thresholds,     \* GarbageCollector.thresholds
    refcount,       \* PyObject.refcount, shared by every clone
    data,           \* kind of PyObject.data, shared by every clone
    payload,        \* payload[o][p]: how often o's container holds p
    has_finalizer,  \* PyObject.has_finalizer
    COUNTER,        \* the static COUNTER of ObjectId::new
    issued,         \* the ObjectIds handed out so far, in order, and to whom
    lock,           \* the RwLock around the Collector: its writer and readers
    pc,             \* where each thread is in its facade call
    GC,             \* ffi.rs: whether the static GC is Some
    AUTOMATIC_TRACKING,     \* ffi.rs: the static flag
    OBJECT_REGISTRY,        \* ffi.rs: the pointers the registry maps
    REFCOUNT_CALLBACKS,     \* ffi.rs: the pointers with a callback
    REFERENCE_TRACKING,     \* ffi.rs: the from -> set of to table
    UNCOLLECTABLE_OBJECTS,  \* ffi.rs: the pointers marked uncollectable
    secondary,      \* per generation 1 and 2: collections of the generation
                    \* below since this one was last collected
    graph,          \* an ObjectGraph of traversal.rs
    panicked        \* a PyObject method has panicked

\* the ObjectId allocator
ids == <<COUNTER, issued>>
\* the threads around the collector's lock
sync == <<lock, pc>>
\* the statics of the boundary
boundary == <<GC, AUTOMATIC_TRACKING, OBJECT_REGISTRY, REFCOUNT_CALLBACKS,
              REFERENCE_TRACKING, UNCOLLECTABLE_OBJECTS>>
\* the collection history, the object graph and the panic flag
aux == <<secondary, graph, panicked>>
others == <<ids, sync, boundary, aux>>

vars == <<collector, enabled, thresholds, refcount, data, payload, has_finalizer,
          ids, sync, boundary, aux>>

\* ------------------------------------------------------------ object.rs
\* static COUNTER: AtomicUsize = AtomicUsize::new(1)
COUNTER_new == 1

fetch_add_stale(counter) == [ret |-> counter, counter |-> counter]

\* COUNTER.fetch_add(1, Ordering::Relaxed): one atomic read-modify-write,
\* which returns the value it found.  The counter is a usize and wraps
\* after 2^64 calls, far beyond any bound here.
fetch_add(counter) == [ret |-> counter, counter |-> counter + 1]

\* PyGCHead::new
PyGCHead_new == [gc_refs |-> 0, collecting |-> FALSE, gc_prev |-> 0]

\* PyGCHead::set_collecting: collecting = true; _gc_prev |= 2
set_collecting(h) ==
    [h EXCEPT !.collecting = TRUE,
              !.gc_prev = IF (h.gc_prev \div 2) % 2 = 1 THEN h.gc_prev ELSE h.gc_prev + 2]

clear_collecting_keep(h) == h

\* PyGCHead::clear_collecting: collecting = false; _gc_prev &= !2
clear_collecting(h) ==
    [h EXCEPT !.collecting = FALSE,
              !.gc_prev = IF (h.gc_prev \div 2) % 2 = 1 THEN h.gc_prev - 2 ELSE h.gc_prev]

\* usize, at the width of the model
Usize == 0..(2^UsizeBits - 1)

\* PyObject::new: the fields the collector reads
PyObject_new == [refcount |-> 1, gc_tracked |-> FALSE, has_finalizer |-> FALSE]

\* PyObject::incref: fetch_add wraps; the `+ 1` on its result panics in a
\* build with overflow checks and wraps in one without
PyObject_incref(count, overflow_checks) ==
    LET current == count
        stored == (count + 1) % 2^UsizeBits
    IN IF current + 1 \notin Usize /\ overflow_checks
       THEN [panic |-> TRUE, ret |-> 0, refcount |-> stored]
       ELSE [panic |-> FALSE, ret |-> (current + 1) % 2^UsizeBits, refcount |-> stored]

\* PyObject::decref: fetch_sub wraps and stores before `current == 0` is
\* tested
PyObject_decref(count) ==
    LET current == count
        stored == (count - 1) % 2^UsizeBits
    IN IF current = 0
       THEN [panic |-> TRUE, ret |-> 0, refcount |-> stored]
       ELSE [panic |-> FALSE, ret |-> current - 1, refcount |-> stored]

\* -------------------------------------------------------- generation.rs
\* HashMap::new() of Generation.objects
NoObjects == [x \in {} |-> PyGCHead_new]

\* Generation::new(threshold)
Generation_new(threshold) ==
    [objects |-> NoObjects, count |-> 0, threshold |-> threshold]

\* GenerationManager::new
GenerationManager_new ==
    [generations |-> [g \in Generations |->
                        IF g = 0 THEN Generation_new(700) ELSE Generation_new(10)],
     collecting_generation |-> -1]

\* Generation::should_collect
should_collect(g) == g.count >= g.threshold

\* Generation::is_empty
is_empty(g) == g.count = 0

Ids(g) == DOMAIN g.objects

\* Generation::add_object
add_object(g, id, head) ==
    IF id \in Ids(g)
    THEN [err |-> "AlreadyTracked", g |-> g]
    ELSE [err |-> "Ok",
          g |-> [g EXCEPT !.objects = [x \in Ids(g) \cup {id} |->
                                          IF x = id THEN head ELSE g.objects[x]],
                          !.count = g.count + 1]]

\* Generation::remove_object
remove_object(g, id) ==
    IF id \notin Ids(g)
    THEN [err |-> "NotTracked", g |-> g]
    ELSE [err |-> "Ok",
          g |-> [g EXCEPT !.objects = [x \in Ids(g) \ {id} |-> g.objects[x]],
                          !.count = g.count - 1]]

\* Generation::clear: the generation after the drain
clear(g) == [g EXCEPT !.objects = NoObjects, !.count = 0]

\* The loop `for obj in objects { to.add_object(obj)?; }` over the drained
\* objects of `from`.  The drain yields a HashMap's entries in an
\* unspecified order; `first` is the set of ids it yields before the first
\* id that `to` already holds.
add_all(to, from, first) ==
    LET dups == Ids(from) \cap Ids(to)
        add == IF dups = {} THEN Ids(from) ELSE (Ids(from) \ dups) \cap first
    IN [err |-> IF dups = {} THEN "Ok" ELSE "AlreadyTracked",
        g |-> [to EXCEPT !.objects = [x \in Ids(to) \cup add |->
                                        IF x \in Ids(to) THEN to.objects[x]
                                        ELSE from.objects[x]],
                         !.count = to.count + Cardinality(add)]]

\* GenerationManager::add_to_generation0
add_to_generation0(gm, id, head) ==
    LET r == add_object(gm.generations[0], id, head)
    IN [err |-> r.err, gm |-> [gm EXCEPT !.generations[0] = r.g]]

\* GenerationManager::add_to_generation0_fast
add_to_generation0_fast(gm, id) ==
    [err |-> "Ok", gm |-> [gm EXCEPT !.generations[0].count = @ + 1]]

\* GenerationManager::bulk_add_to_generation0: the ids of the Vec, of
\* which those generation 0 lacks are inserted and counted
bulk_add_to_generation0(gm, new_ids) ==
    LET g == gm.generations[0]
        add == new_ids \ Ids(g)
    IN [err |-> "Ok",
        gm |-> [gm EXCEPT !.generations[0] =
                   [g EXCEPT !.objects = [x \in Ids(g) \cup add |->
                                            IF x \in Ids(g) THEN g.objects[x]
                                            ELSE PyGCHead_new],
                             !.count = g.count + Cardinality(add)]]]

promote_generation_keep_source(gm, from_gen, first) ==
    IF from_gen >= 2
    THEN [err |-> "Ok", gm |-> gm]
    ELSE LET r == add_all(gm.generations[from_gen + 1], gm.generations[from_gen], first)
         IN [err |-> r.err,
             gm |-> [gm EXCEPT !.generations[from_gen + 1] = r.g]]

\* GenerationManager::promote_generation
promote_generation(gm, from_gen, first) ==
    IF from_gen >= 2
    THEN [err |-> "Ok", gm |-> gm]
    ELSE LET r == add_all(gm.generations[from_gen + 1], gm.generations[from_gen], first)
         IN [err |-> r.err,
             gm |-> [gm EXCEPT !.generations[from_gen] = clear(gm.generations[from_gen]),
                               !.generations[from_gen + 1] = r.g]]

start_collection_mark_first(gm, generation_idx) ==
    IF gm.collecting_generation # -1
    THEN [err |-> "CollectionInProgress", gm |-> gm]
    ELSE [err |-> IF generation_idx >= 3 THEN "Internal" ELSE "Ok",
          gm |-> [gm EXCEPT !.collecting_generation = generation_idx]]

start_collection_unguarded(gm, generation_idx) ==
    IF generation_idx >= 3
    THEN [err |-> "Internal", gm |-> gm]
    ELSE [err |-> "Ok", gm |-> [gm EXCEPT !.collecting_generation = generation_idx]]

\* GenerationManager::start_collection
start_collection(gm, generation_idx) ==
    IF gm.collecting_generation # -1
    THEN [err |-> "CollectionInProgress", gm |-> gm]
    ELSE IF generation_idx >= 3
    THEN [err |-> "Internal", gm |-> gm]
    ELSE [err |-> "Ok", gm |-> [gm EXCEPT !.collecting_generation = generation_idx]]

\* GenerationManager::end_collection
end_collection(gm) == [gm EXCEPT !.collecting_generation = -1]

\* --------------------------------------------------------- collector.rs
\* Collector::new
Collector_new ==
    [generation_manager |-> GenerationManager_new,
     tracked_objects |-> {},
     collecting_objects |-> {},
     uncollectable |-> [o \in Objs |-> 0],
     debug_flags |-> 0]

Gen(c, i) == c.generation_manager.generations[i]

SetGen(c, i, g) == [c EXCEPT !.generation_manager.generations[i] = g]

\* Collector::track_object_fast; gc_tracked is the flag of the copy passed in
track_object_fast(c, id, gc_tracked) ==
    IF gc_tracked
    THEN [err |-> "AlreadyTracked", c |-> c]
    ELSE LET r == add_to_generation0(c.generation_manager, id, PyGCHead_new)
         IN IF r.err # "Ok"
            THEN [err |-> r.err, c |-> c]
            ELSE [err |-> "Ok",
                  c |-> [c EXCEPT !.generation_manager = r.gm,
                                  !.tracked_objects = c.tracked_objects \cup {id}]]

untrack_object_fast_keep_gen0(c, id) ==
    IF id \notin c.tracked_objects
    THEN [err |-> "NotTracked", c |-> c]
    ELSE [err |-> "Ok", c |-> [c EXCEPT !.tracked_objects = c.tracked_objects \ {id}]]

\* Collector::untrack_object_fast
untrack_object_fast(c, id) ==
    IF id \notin c.tracked_objects
    THEN [err |-> "NotTracked", c |-> c]
    ELSE [err |-> "Ok",
          c |-> [c EXCEPT !.tracked_objects = c.tracked_objects \ {id},
                          !.generation_manager.generations[0] =
                              remove_object(Gen(c, 0), id).g]]

\* Collector::update_refs
update_refs(c, generation) ==
    LET g == Gen(c, generation)
    IN SetGen(c, generation,
              [g EXCEPT !.objects = [x \in Ids(g) |->
                    set_collecting([g.objects[x] EXCEPT !.gc_refs = refcount[x]])]])

\* Collector::subtract_refs
subtract_refs(c, generation) ==
    LET g == Gen(c, generation)
    IN SetGen(c, generation,
              [g EXCEPT !.objects = [x \in Ids(g) |->
                    IF g.objects[x].gc_refs > 0
                    THEN [g.objects[x] EXCEPT !.gc_refs = g.objects[x].gc_refs - 1]
                    ELSE g.objects[x]]])

\* Collector::move_unreachable: the ids of the returned objects
move_unreachable(c, generation) ==
    {x \in Ids(Gen(c, generation)) : Gen(c, generation).objects[x].gc_refs = 0}

\* Collector::has_finalizer
Collector_has_finalizer(id) == data[id] = "Custom"

\* Collector::handle_finalizers: the ids of the returned objects
handle_finalizers(unreachable) == {x \in unreachable : Collector_has_finalizer(x)}

\* Collector::clear_unreachable
clear_unreachable(c, unreachable) ==
    LET plain == {x \in unreachable : ~Collector_has_finalizer(x)}
    IN [collected |-> Cardinality(plain),
        c |-> [c EXCEPT !.tracked_objects = c.tracked_objects \ plain,
                        !.uncollectable = [o \in Objs |->
                              IF o \in unreachable \ plain
                              THEN c.uncollectable[o] + 1
                              ELSE c.uncollectable[o]]]]

restore_refs_skip(c, generation) == c

\* Collector::restore_refs
restore_refs(c, generation) ==
    LET g == Gen(c, generation)
    IN SetGen(c, generation,
              [g EXCEPT !.objects = [x \in Ids(g) |-> clear_collecting(g.objects[x])]])

\* Collector::collect_main
collect_main(c, generation) ==
    IF is_empty(Gen(c, generation))
    THEN [collected |-> 0, c |-> c]
    ELSE LET c1 == update_refs(c, generation)
             c2 == subtract_refs(c1, generation)
             unreachable == move_unreachable(c2, generation)
             r == clear_unreachable(c2, unreachable)
         IN [collected |-> r.collected, c |-> restore_refs(r.c, generation)]

\* Collector::merge_younger_generations
RECURSIVE merge_from(_, _, _, _)
merge_from(c, i, generation, first) ==
    IF i >= generation
    THEN [err |-> "Ok", c |-> c]
    ELSE LET r == add_all(Gen(c, generation), Gen(c, i), first)
             c1 == SetGen(SetGen(c, i, clear(Gen(c, i))), generation, r.g)
         IN IF r.err # "Ok"
            THEN [err |-> r.err, c |-> c1]
            ELSE merge_from(c1, i + 1, generation, first)

merge_younger_generations(c, generation, first) == merge_from(c, 0, generation, first)

\* Collector::collect_generation
collect_generation(c, generation, first) ==
    LET s == start_collection(c.generation_manager, generation)
    IN IF s.err # "Ok"
       THEN [err |-> s.err, collected |-> 0,
             c |-> [c EXCEPT !.generation_manager = s.gm]]
       ELSE
       LET m == merge_younger_generations(
                    [c EXCEPT !.generation_manager = s.gm], generation, first)
       IN IF m.err # "Ok"
          THEN [err |-> m.err, collected |-> 0, c |-> m.c]
          ELSE
          LET cm == collect_main(m.c, generation)
              p == IF generation < 2
                   THEN promote_generation(cm.c.generation_manager, generation, first)
                   ELSE [err |-> "Ok", gm |-> cm.c.generation_manager]
          IN IF p.err # "Ok"
             THEN [err |-> p.err, collected |-> 0,
                   c |-> [cm.c EXCEPT !.generation_manager = p.gm]]
             ELSE [err |-> "Ok", collected |-> cm.collected,
                   c |-> [cm.c EXCEPT !.generation_manager = end_collection(p.gm)]]

\* Vec::len of Collector.uncollectable, which holds o uncollectable[o] times
RECURSIVE uncollectable_len(_, _)
uncollectable_len(c, S) ==
    IF S = {} THEN 0
    ELSE LET x == CHOOSE y \in S : TRUE
         IN c.uncollectable[x] + uncollectable_len(c, S \ {x})

\* Collector::set_debug
Collector_set_debug(c, flags) == [c EXCEPT !.debug_flags = flags]

\* Collector::get_stats
get_stats(c) ==
    [total_tracked |-> Cardinality(c.tracked_objects),
     generation_counts |-> [g \in Generations |-> Gen(c, g).count],
     uncollectable |-> uncollectable_len(c, Objs)]

\* Collector::get_count, called by GarbageCollector::get_count
get_count(c) == Cardinality(c.tracked_objects)

\* ---------------------------------------------------------------- gc.rs
\* The facade's methods: err is the variant of the GCResult, ret the usize
\* of Ok(n), c the Collector after the call.

GarbageCollector_track_ignore_enabled(c, en, id, gc_tracked) ==
    LET r == track_object_fast(c, id, gc_tracked)
    IN [err |-> r.err, ret |-> 0, c |-> r.c]

\* GarbageCollector::track; gc_tracked is the flag of the copy passed in
GarbageCollector_track(c, en, id, gc_tracked) ==
    IF ~en
    THEN [err |-> "Ok", ret |-> 0, c |-> c]
    ELSE LET r == track_object_fast(c, id, gc_tracked)
         IN [err |-> r.err, ret |-> 0, c |-> r.c]

\* GarbageCollector::untrack
GarbageCollector_untrack(c, en, id) ==
    IF ~en
    THEN [err |-> "Ok", ret |-> 0, c |-> c]
    ELSE LET r == untrack_object_fast(c, id)
         IN [err |-> r.err, ret |-> 0, c |-> r.c]

\* GarbageCollector::collect_generation
GarbageCollector_collect_generation(c, en, generation, first) ==
    IF ~en
    THEN [err |-> "Ok", ret |-> 0, c |-> c]
    ELSE LET r == collect_generation(c, generation, first)
         IN [err |-> r.err, ret |-> r.collected, c |-> r.c]

\* GarbageCollector::collect
GarbageCollector_collect(c, en, first) ==
    IF ~en
    THEN [err |-> "Ok", ret |-> 0, c |-> c]
    ELSE LET r == collect_generation(c, 2, first)
         IN [err |-> r.err, ret |-> r.collected, c |-> r.c]

\* GarbageCollector::collect_if_needed
GarbageCollector_collect_if_needed(c, en, first) ==
    IF ~en
    THEN [err |-> "Ok", ret |-> 0, c |-> c]
    ELSE IF should_collect(Gen(c, 2)) THEN GarbageCollector_collect_generation(c, en, 2, first)
    ELSE IF should_collect(Gen(c, 1)) THEN GarbageCollector_collect_generation(c, en, 1, first)
    ELSE IF should_collect(Gen(c, 0)) THEN GarbageCollector_collect_generation(c, en, 0, first)
    ELSE [err |-> "Ok", ret |-> 0, c |-> c]

\* GarbageCollector::collect_if_needed: the generation its loop settles
\* on, -1 when it collects nothing
collect_if_needed_generation(c) ==
    IF should_collect(Gen(c, 2)) THEN 2
    ELSE IF should_collect(Gen(c, 1)) THEN 1
    ELSE IF should_collect(Gen(c, 0)) THEN 0
    ELSE -1

\* GarbageCollector::clear_uncollectable
GarbageCollector_clear_uncollectable(c) ==
    [c EXCEPT !.uncollectable = [o \in Objs |-> 0]]

\* GarbageCollector::get_count
GarbageCollector_get_count(c) == get_count(c)

\* GarbageCollector::new, the thresholds field
GarbageCollector_new_thresholds == [g \in Generations |-> IF g = 0 THEN 700 ELSE 10]

GarbageCollector_set_threshold_first_slot(th, generation, threshold) ==
    IF generation >= 3
    THEN [err |-> "Internal", th |-> th]
    ELSE [err |-> "Ok", th |-> [th EXCEPT ![0] = threshold]]

\* GarbageCollector::set_threshold; th is the facade's thresholds array
GarbageCollector_set_threshold(th, generation, threshold) ==
    IF generation >= 3
    THEN [err |-> "Internal", th |-> th]
    ELSE [err |-> "Ok", th |-> [th EXCEPT ![generation] = threshold]]

\* GarbageCollector::get_threshold: <<t>> is Some(t), <<>> is None
GarbageCollector_get_threshold(th, generation) ==
    IF generation \in DOMAIN th THEN <<th[generation]>> ELSE <<>>

\* GenerationManager::should_collect_generation, called by
\* GarbageCollector::needs_collection
should_collect_generation(gm, generation_idx) ==
    IF generation_idx \in DOMAIN gm.generations
    THEN should_collect(gm.generations[generation_idx])
    ELSE FALSE

\* GarbageCollector::needs_collection
GarbageCollector_needs_collection(c) ==
    should_collect_generation(c.generation_manager, 0)

\* --------------------------------------------------------------- ffi.rs
\* From<GCResult<usize>> for GCReturnCode, with the values of the enum
GCReturnCode_from(err) ==
    CASE err = "Ok" -> 0
      [] err = "AlreadyTracked" -> -1
      [] err = "NotTracked" -> -2
      [] err = "CollectionInProgress" -> -3
      [] err = "InvalidGeneration" -> -4
      [] OTHER -> -5

\* py_gc_collect_generation, on an initialised GC
py_gc_collect_generation(c, en, generation, first) ==
    IF generation \notin 0..2
    THEN [code |-> -4, c |-> c]
    ELSE LET r == GarbageCollector_collect_generation(c, en, generation, first)
         IN [code |-> GCReturnCode_from(r.err), c |-> r.c]

\* The statics of ffi.rs as one value.  collector, enabled and thresholds
\* are the fields of the GarbageCollector in GC; while GC is None they
\* are those of a fresh one.
Statics ==
    [GC |-> GC, collector |-> collector, enabled |-> enabled,
     thresholds |-> thresholds,
     AUTOMATIC_TRACKING |-> AUTOMATIC_TRACKING,
     OBJECT_REGISTRY |-> OBJECT_REGISTRY,
     REFCOUNT_CALLBACKS |-> REFCOUNT_CALLBACKS,
     REFERENCE_TRACKING |-> REFERENCE_TRACKING,
     UNCOLLECTABLE_OBJECTS |-> UNCOLLECTABLE_OBJECTS]

\* GC = Some(GarbageCollector::new())
GC_Some_new(b) ==
    [b EXCEPT !.GC = TRUE, !.collector = Collector_new, !.enabled = TRUE,
              !.thresholds = GarbageCollector_new_thresholds]

\* GC = None
GC_None(b) ==
    [b EXCEPT !.GC = FALSE, !.collector = Collector_new, !.enabled = TRUE,
              !.thresholds = GarbageCollector_new_thresholds]

\* py_gc_init
py_gc_init(b) ==
    [code |-> 0, b |-> [GC_Some_new(b) EXCEPT !.AUTOMATIC_TRACKING = FALSE]]

py_gc_cleanup_keep_registry(b) ==
    [code |-> 0,
     b |-> [GC_None(b) EXCEPT !.REFCOUNT_CALLBACKS = {},
                              !.REFERENCE_TRACKING = [p \in Ptrs \ {0} |-> {}],
                              !.UNCOLLECTABLE_OBJECTS = <<>>,
                              !.AUTOMATIC_TRACKING = FALSE]]

\* py_gc_cleanup
py_gc_cleanup(b) ==
    [code |-> 0,
     b |-> [GC_None(b) EXCEPT !.OBJECT_REGISTRY = {},
                              !.REFCOUNT_CALLBACKS = {},
                              !.REFERENCE_TRACKING = [p \in Ptrs \ {0} |-> {}],
                              !.UNCOLLECTABLE_OBJECTS = <<>>,
                              !.AUTOMATIC_TRACKING = FALSE]]

\* py_gc_enable
py_gc_enable(b) ==
    IF b.GC THEN [code |-> 0, b |-> [b EXCEPT !.enabled = TRUE]]
    ELSE [code |-> -5, b |-> b]

\* py_gc_disable
py_gc_disable(b) ==
    IF b.GC THEN [code |-> 0, b |-> [b EXCEPT !.enabled = FALSE]]
    ELSE [code |-> -5, b |-> b]

\* py_gc_is_enabled
py_gc_is_enabled(b) == IF b.GC /\ b.enabled THEN 1 ELSE 0

\* py_gc_is_initialized
py_gc_is_initialized(b) == IF b.GC THEN 1 ELSE 0

\* py_gc_enable_automatic_tracking
py_gc_enable_automatic_tracking(b) ==
    [code |-> 0, b |-> [b EXCEPT !.AUTOMATIC_TRACKING = TRUE]]

\* py_gc_disable_automatic_tracking
py_gc_disable_automatic_tracking(b) ==
    [code |-> 0, b |-> [b EXCEPT !.AUTOMATIC_TRACKING = FALSE]]

\* py_gc_track: is_object_tracked and track_object_fast of ffi.rs work on
\* OBJECT_REGISTRY
py_gc_track(b, obj_ptr) ==
    IF obj_ptr = 0 THEN [code |-> -5, b |-> b]
    ELSE IF obj_ptr \in b.OBJECT_REGISTRY THEN [code |-> -1, b |-> b]
    ELSE [code |-> 0, b |-> [b EXCEPT !.OBJECT_REGISTRY = b.OBJECT_REGISTRY \cup {obj_ptr}]]

\* py_gc_untrack
py_gc_untrack(b, obj_ptr) ==
    IF ~b.GC THEN [code |-> -5, b |-> b]
    ELSE IF obj_ptr = 0 THEN [code |-> -5, b |-> b]
    ELSE IF obj_ptr \notin b.OBJECT_REGISTRY THEN [code |-> -2, b |-> b]
    ELSE [code |-> 0, b |-> [b EXCEPT !.OBJECT_REGISTRY = b.OBJECT_REGISTRY \ {obj_ptr}]]

\* py_gc_collect_generation
py_gc_collect_generation_on(b, generation, first) ==
    IF ~b.GC THEN [code |-> -5, b |-> b]
    ELSE LET r == py_gc_collect_generation(b.collector, b.enabled, generation, first)
         IN [code |-> r.code, b |-> [b EXCEPT !.collector = r.c]]

\* py_gc_collect
py_gc_collect(b, first) ==
    IF ~b.GC THEN [code |-> -5, b |-> b]
    ELSE LET r == GarbageCollector_collect(b.collector, b.enabled, first)
         IN [code |-> GCReturnCode_from(r.err), b |-> [b EXCEPT !.collector = r.c]]

\* py_gc_collect_if_needed
py_gc_collect_if_needed(b, first) ==
    IF ~b.GC THEN [code |-> -5, b |-> b]
    ELSE LET r == GarbageCollector_collect_if_needed(b.collector, b.enabled, first)
         IN [code |-> GCReturnCode_from(r.err), b |-> [b EXCEPT !.collector = r.c]]

\* py_gc_set_threshold
py_gc_set_threshold(b, generation, threshold) ==
    IF ~b.GC THEN [code |-> -5, b |-> b]
    ELSE IF generation \notin 0..2 \/ threshold < 0 THEN [code |-> -4, b |-> b]
    ELSE LET r == GarbageCollector_set_threshold(b.thresholds, generation, threshold)
         IN [code |-> GCReturnCode_from(r.err), b |-> [b EXCEPT !.thresholds = r.th]]

\* py_gc_get_stats: the code, and the GCStats written through the pointer
py_gc_get_stats(b, stats_is_null) ==
    IF ~b.GC \/ stats_is_null THEN [code |-> -5, stats |-> <<>>]
    ELSE [code |-> 0, stats |-> <<get_stats(b.collector)>>]

\* py_gc_get_count
py_gc_get_count(b) ==
    IF b.GC THEN GarbageCollector_get_count(b.collector) ELSE 0

\* py_gc_get_generation_count
py_gc_get_generation_count(b, generation) ==
    IF ~b.GC THEN 0
    ELSE IF generation \notin 0..2 THEN -1
    ELSE Gen(b.collector, generation).count

\* add_reference
add_reference(refs, from_obj, to_obj) ==
    [refs EXCEPT ![from_obj] = refs[from_obj] \cup {to_obj}]

\* remove_reference
remove_reference(refs, from_obj, to_obj) ==
    [refs EXCEPT ![from_obj] = refs[from_obj] \ {to_obj}]

\* add_uncollectable
add_uncollectable(list, obj_ptr) ==
    IF \E i \in 1..Len(list) : list[i] = obj_ptr THEN list
    ELSE Append(list, obj_ptr)

\* remove_uncollectable
remove_uncollectable(list, obj_ptr) ==
    SelectSeq(list, LAMBDA ptr : ptr # obj_ptr)

\* py_gc_add_reference
py_gc_add_reference(b, from_obj, to_obj) ==
    IF from_obj = 0 \/ to_obj = 0 THEN [code |-> -5, b |-> b]
    ELSE [code |-> 0,
          b |-> [b EXCEPT !.REFERENCE_TRACKING =
                              add_reference(b.REFERENCE_TRACKING, from_obj, to_obj)]]

\* py_gc_remove_reference
py_gc_remove_reference(b, from_obj, to_obj) ==
    IF from_obj = 0 \/ to_obj = 0 THEN [code |-> -5, b |-> b]
    ELSE [code |-> 0,
          b |-> [b EXCEPT !.REFERENCE_TRACKING =
                              remove_reference(b.REFERENCE_TRACKING, from_obj, to_obj)]]

\* py_gc_mark_uncollectable
py_gc_mark_uncollectable(b, obj_ptr) ==
    IF obj_ptr = 0 THEN [code |-> -5, b |-> b]
    ELSE [code |-> 0,
          b |-> [b EXCEPT !.UNCOLLECTABLE_OBJECTS =
                              add_uncollectable(b.UNCOLLECTABLE_OBJECTS, obj_ptr)]]

\* py_gc_unmark_uncollectable
py_gc_unmark_uncollectable(b, obj_ptr) ==
    IF obj_ptr = 0 THEN [code |-> -5, b |-> b]
    ELSE [code |-> 0,
          b |-> [b EXCEPT !.UNCOLLECTABLE_OBJECTS =
                              remove_uncollectable(b.UNCOLLECTABLE_OBJECTS, obj_ptr)]]

\* py_gc_object_created
py_gc_object_created(b, obj_ptr) ==
    IF ~b.AUTOMATIC_TRACKING THEN [code |-> 0, b |-> b]
    ELSE IF obj_ptr = 0 THEN [code |-> -5, b |-> b]
    ELSE IF obj_ptr \in b.OBJECT_REGISTRY THEN [code |-> -1, b |-> b]
    ELSE [code |-> 0,
          b |-> [b EXCEPT !.OBJECT_REGISTRY = b.OBJECT_REGISTRY \cup {obj_ptr},
                          !.REFCOUNT_CALLBACKS = b.REFCOUNT_CALLBACKS \cup {obj_ptr}]]

\* py_gc_object_destroyed
py_gc_object_destroyed(b, obj_ptr) ==
    IF obj_ptr = 0 THEN [code |-> -5, b |-> b]
    ELSE [code |-> IF obj_ptr \in b.OBJECT_REGISTRY THEN 0 ELSE -2,
          b |-> [b EXCEPT !.OBJECT_REGISTRY = b.OBJECT_REGISTRY \ {obj_ptr},
                          !.REFCOUNT_CALLBACKS = b.REFCOUNT_CALLBACKS \ {obj_ptr}]]

\* gc.collect_if_needed().ok() under if let Some(ref gc) = GC, calls
\* times in a row
RECURSIVE collect_if_needed_ok(_, _, _)
collect_if_needed_ok(b, calls, first) ==
    IF calls = 0 \/ ~b.GC THEN b
    ELSE collect_if_needed_ok(
             [b EXCEPT !.collector =
                  GarbageCollector_collect_if_needed(b.collector, b.enabled, first).c],
             calls - 1, first)

\* py_gc_refcount_changed: notify_refcount_change runs the callback that
\* py_gc_object_created registered, which collects when the count fell
\* and py_gc_get_refcount(obj_ptr), here known, is 0; then the function
\* collects when new_count is 0
py_gc_refcount_changed(b, obj_ptr, old_count, new_count, known, first) ==
    IF ~b.AUTOMATIC_TRACKING THEN [code |-> 0, b |-> b]
    ELSE IF obj_ptr = 0 THEN [code |-> -5, b |-> b]
    ELSE LET notified == IF /\ obj_ptr \in b.REFCOUNT_CALLBACKS
                            /\ new_count - old_count < 0
                            /\ known = 0
                         THEN 1 ELSE 0
             direct == IF new_count = 0 THEN 1 ELSE 0
         IN [code |-> 0, b |-> collect_if_needed_ok(b, notified + direct, first)]

\* --------------------------------------------------------- traversal.rs
\* ObjectGraph::new.  references[a] is the Vec of Reference of a and
\* reverse_references[b] the Vec of referrers of b; a key the HashMap
\* lacks is an empty Vec here, which every method below treats alike
ObjectGraph_new ==
    [objects |-> {},
     references |-> [a \in Objs |-> <<>>],
     reverse_references |-> [b \in Objs |-> <<>>]]

\* ReferenceType
ReferenceTypes == {"Direct", "Weak", "Finalizer"}

\* ObjectGraph::add_object
ObjectGraph_add_object(g, obj_id) ==
    [g EXCEPT !.objects = g.objects \cup {obj_id},
              !.references[obj_id] = <<>>,
              !.reverse_references[obj_id] = <<>>]

\* from_refs.retain(|r| r.to != *obj_id)
retain_not_to(refs, obj_id) == SelectSeq(refs, LAMBDA r : r.to # obj_id)

\* reverse_refs.retain(|&id| id != from)
retain_not_from(reverse_refs, from) == SelectSeq(reverse_refs, LAMBDA id : id # from)

\* the ids a Vec of referrers holds
Referrers(reverse_refs) == {reverse_refs[i] : i \in 1..Len(reverse_refs)}

\* the ids a Vec of Reference points to
Targets(refs) == {refs[i].to : i \in 1..Len(refs)}

\* ObjectGraph::remove_object: the graph afterwards
ObjectGraph_remove_object(g, obj_id) ==
    LET refs == Referrers(g.reverse_references[obj_id])
    IN [g EXCEPT !.objects = g.objects \ {obj_id},
                 !.references = [a \in Objs |->
                     IF a = obj_id THEN <<>>
                     ELSE IF a \in refs THEN retain_not_to(g.references[a], obj_id)
                     ELSE g.references[a]],
                 !.reverse_references[obj_id] = <<>>]

\* ObjectGraph::add_reference
ObjectGraph_add_reference(g, from, to, ref_type) ==
    IF from \notin g.objects \/ to \notin g.objects
    THEN [err |-> "Internal", g |-> g]
    ELSE [err |-> "Ok",
          g |-> [g EXCEPT !.references[from] =
                              Append(@, [from |-> from, to |-> to,
                                         reference_type |-> ref_type]),
                          !.reverse_references[to] = Append(@, from)]]

\* ObjectGraph::remove_reference
ObjectGraph_remove_reference(g, from, to) ==
    [err |-> "Ok",
     g |-> [g EXCEPT !.references[from] = retain_not_to(@, to),
                     !.reverse_references[to] = retain_not_from(@, from)]]

\* ObjectGraph::reference_count
reference_count(g) ==
    LET RECURSIVE sum(_)
        sum(S) == IF S = {} THEN 0
                  ELSE LET a == CHOOSE x \in S : TRUE
                       IN Len(g.references[a]) + sum(S \ {a})
    IN sum(Objs)

\* the loop over the Vec refs of the object the queue yielded, from its
\* i-th Reference on: the reachable set and the queue afterwards
RECURSIVE visit_refs(_, _, _, _)
visit_refs(refs, i, reachable, queue) ==
    IF i > Len(refs) THEN [reachable |-> reachable, queue |-> queue]
    ELSE IF refs[i].to \in reachable
    THEN visit_refs(refs, i + 1, reachable, queue)
    ELSE visit_refs(refs, i + 1, reachable \cup {refs[i].to}, Append(queue, refs[i].to))

\* while let Some(current_id) = queue.pop_front()
RECURSIVE drain_queue(_, _, _)
drain_queue(g, reachable, queue) ==
    IF queue = <<>> THEN reachable
    ELSE LET v == visit_refs(g.references[Head(queue)], 1, reachable, Tail(queue))
         IN drain_queue(g, v.reachable, v.queue)

\* ObjectGraph::find_reachable; roots is the slice
find_reachable(g, roots) ==
    drain_queue(g, {roots[i] : i \in 1..Len(roots)}, roots)

\* ObjectGraph::find_unreachable
find_unreachable(g, roots) == g.objects \ find_reachable(g, roots)

position_first(path, next_id) == IF path # <<>> THEN 1 ELSE 0

\* path.iter().position(|&id| id == next_id): 0 for None
position(path, next_id) ==
    IF \E i \in 1..Len(path) : path[i] = next_id
    THEN CHOOSE i \in 1..Len(path) :
             path[i] = next_id /\ \A j \in 1..(i - 1) : path[j] # next_id
    ELSE 0

\* ObjectGraph::dfs_cycle_detection; st holds visited, rec_stack, path and
\* cycles, and dfs_refs is its loop over the references from the i-th on
RECURSIVE dfs_cycle_detection(_, _, _)
RECURSIVE dfs_refs(_, _, _, _)
dfs_refs(g, current_id, i, st) ==
    LET refs == g.references[current_id]
    IN IF i > Len(refs) THEN st
       ELSE LET next_id == refs[i].to
            IN IF next_id \notin st.visited
               THEN dfs_refs(g, current_id, i + 1, dfs_cycle_detection(g, next_id, st))
               ELSE IF next_id \in st.rec_stack /\ position(st.path, next_id) # 0
               THEN dfs_refs(g, current_id, i + 1,
                        [st EXCEPT !.cycles = Append(@,
                             SubSeq(st.path, position(st.path, next_id), Len(st.path)))])
               ELSE dfs_refs(g, current_id, i + 1, st)

dfs_cycle_detection(g, current_id, st) ==
    LET entered == [st EXCEPT !.visited = @ \cup {current_id},
                              !.rec_stack = @ \cup {current_id},
                              !.path = Append(@, current_id)]
        done == dfs_refs(g, current_id, 1, entered)
    IN [done EXCEPT !.rec_stack = @ \ {current_id},
                    !.path = SubSeq(@, 1, Len(@) - 1)]

\* ObjectGraph::detect_cycles; keys is self.objects.keys(), in the order
\* the HashMap yields them
RECURSIVE detect_from(_, _, _, _)
detect_from(g, keys, i, st) ==
    IF i > Len(keys) THEN st
    ELSE IF keys[i] \in st.visited THEN detect_from(g, keys, i + 1, st)
    ELSE detect_from(g, keys, i + 1, dfs_cycle_detection(g, keys[i], st))

detect_cycles(g, keys) ==
    detect_from(g, keys, 1,
                [visited |-> {}, rec_stack |-> {}, path |-> <<>>, cycles |-> <<>>]).cycles

\* ------------------------------------------------------------ the host
\* references to o stored in the payloads of the objects of S
RECURSIVE InRefs(_, _)
InRefs(o, S) ==
    IF S = {} THEN 0
    ELSE LET x == CHOOSE y \in S : TRUE
         IN payload[x][o] + InRefs(o, S \ {x})

\* the constructor that made o: 0 PyObject::new with a container, 1
\* PyObject::new_with_finalizer with a container, 2 and 3 the same two
\* with ObjectData::Custom
Made(o) == (IF data[o] = "Custom" THEN 2 ELSE 0) + (IF has_finalizer[o] THEN 1 ELSE 0)

\* GarbageCollector::new, and objects made by PyObject::new and
\* PyObject::new_with_finalizer; the objects are interchangeable, so they
\* are numbered in the order of Made
InitFacade ==
    /\ collector = Collector_new
    /\ enabled = TRUE
    /\ thresholds = GarbageCollector_new_thresholds
    /\ refcount = [o \in Objs |-> 1]
    /\ data \in [Objs -> DataKinds]
    /\ has_finalizer \in [Objs -> BOOLEAN]
    /\ \A o, p \in Objs : o < p => Made(o) <= Made(p)
    /\ payload = [o \in Objs |-> [p \in Objs |-> 0]]

\* RwLock::new: no writer (0) and no readers
RwLock_new == [writer |-> 0, readers |-> {}]

\* no thread is inside a call of the facade
InitSync ==
    /\ lock = RwLock_new
    /\ pc = [t \in Threads |-> [at |-> "idle", generation |-> 0]]

\* the statics of ffi.rs when the library is loaded
InitBoundary ==
    /\ GC = FALSE
    /\ AUTOMATIC_TRACKING = FALSE
    /\ OBJECT_REGISTRY = {}
    /\ REFCOUNT_CALLBACKS = {}
    /\ REFERENCE_TRACKING = [p \in Ptrs \ {0} |-> {}]
    /\ UNCOLLECTABLE_OBJECTS = <<>>

\* the host has made the objects, whose ObjectIds are 1..NumObjs
\* no collection yet, ObjectGraph::new, and no panic
InitAux ==
    /\ secondary = [g \in 1..2 |-> 0]
    /\ graph = ObjectGraph_new
    /\ panicked = FALSE

Init ==
    /\ InitFacade
    /\ COUNTER = NumObjs + 1
    /\ issued = [i \in Objs |-> [id |-> i, by |-> 1]]
    /\ InitSync
    /\ InitBoundary
    /\ InitAux

Host == UNCHANGED <<refcount, data, payload, has_finalizer>>

\* the uncollectable list is kept within the bound
WithinBounds(c) == uncollectable_len(c, Objs) <= MaxUncollectable

\* The collector between two calls.  gc_refs is scratch of one pass:
\* update_refs overwrites it for every object of the collected generation
\* before subtract_refs and move_unreachable read it, and nothing else reads
\* it, so the value a pass leaves behind is dead and is not kept apart in
\* the state.
AtRest(c) ==
    [c EXCEPT !.generation_manager.generations =
        [g \in Generations |->
            [c.generation_manager.generations[g] EXCEPT !.objects =
                [x \in Ids(c.generation_manager.generations[g]) |->
                    [c.generation_manager.generations[g].objects[x]
                        EXCEPT !.gc_refs = 0]]]]]

\* GarbageCollector::enable
Enable ==
    /\ enabled' = TRUE
    /\ UNCHANGED <<collector, thresholds, others>>
    /\ Host

\* GarbageCollector::disable
Disable ==
    /\ enabled' = FALSE
    /\ UNCHANGED <<collector, thresholds, others>>
    /\ Host

\* GarbageCollector::track.  The caller passes a copy of the object whose
\* gc_tracked flag is false, or a copy taken from get_uncollectable(), whose
\* flag is true.
Track(o, gc_tracked) ==
    /\ gc_tracked => collector.uncollectable[o] > 0
    /\ collector' = GarbageCollector_track(collector, enabled, o, gc_tracked).c
    /\ UNCHANGED <<enabled, thresholds, others>>
    /\ Host

\* GarbageCollector::untrack
Untrack(o) ==
    /\ collector' = GarbageCollector_untrack(collector, enabled, o).c
    /\ UNCHANGED <<enabled, thresholds, others>>
    /\ Host

\* GarbageCollector::collect_generation
CollectGeneration(n, first) ==
    /\ LET r == GarbageCollector_collect_generation(collector, enabled, n, first)
       IN /\ WithinBounds(r.c)
          /\ collector' = AtRest(r.c)
    /\ UNCHANGED <<enabled, thresholds, others>>
    /\ Host

\* GarbageCollector::collect
Collect(first) ==
    /\ LET r == GarbageCollector_collect(collector, enabled, first)
       IN /\ WithinBounds(r.c)
          /\ collector' = AtRest(r.c)
    /\ UNCHANGED <<enabled, thresholds, others>>
    /\ Host

\* GarbageCollector::collect_if_needed
CollectIfNeeded(first) ==
    /\ LET r == GarbageCollector_collect_if_needed(collector, enabled, first)
       IN /\ WithinBounds(r.c)
          /\ collector' = AtRest(r.c)
    /\ UNCHANGED <<enabled, thresholds, others>>
    /\ Host

\* GarbageCollector::clear_uncollectable
ClearUncollectable ==
    /\ collector' = GarbageCollector_clear_uncollectable(collector)
    /\ UNCHANGED <<enabled, thresholds, others>>
    /\ Host

\* GarbageCollector::set_threshold
SetThreshold(g, t) ==
    /\ thresholds' = GarbageCollector_set_threshold(thresholds, g, t).th
    /\ UNCHANGED <<collector, enabled, others>>
    /\ Host

\* Collector::set_debug on the facade's collector
SetDebug(flags) ==
    /\ collector' = Collector_set_debug(collector, flags)
    /\ UNCHANGED <<enabled, thresholds, others>>
    /\ Host

\* A caller of Generation and GenerationManager: the manager after a call
GenerationManagerSet(gm) ==
    /\ \A g \in Generations : gm.generations[g].count <= MaxCount
    /\ collector' = [collector EXCEPT !.generation_manager = gm]
    /\ UNCHANGED <<enabled, thresholds, others>>
    /\ Host

\* Generation::add_object on generation g
GenAddObject(g, o) ==
    /\ \E r \in {add_object(Gen(collector, g), o, PyGCHead_new)} :
           GenerationManagerSet([collector.generation_manager EXCEPT !.generations[g] = r.g])
    /\ TRUE

\* Generation::remove_object on generation g
GenRemoveObject(g, o) ==
    /\ \E r \in {remove_object(Gen(collector, g), o)} :
           GenerationManagerSet([collector.generation_manager EXCEPT !.generations[g] = r.g])
    /\ TRUE

\* Generation::clear on generation g
GenClear(g) ==
    /\ GenerationManagerSet([collector.generation_manager EXCEPT
                                 !.generations[g] = clear(Gen(collector, g))])
    /\ TRUE

\* GenerationManager::add_to_generation0
AddToGeneration0(o) ==
    /\ GenerationManagerSet(
           add_to_generation0(collector.generation_manager, o, PyGCHead_new).gm)
    /\ TRUE

\* GenerationManager::add_to_generation0_fast
AddToGeneration0Fast(o) ==
    /\ GenerationManagerSet(add_to_generation0_fast(collector.generation_manager, o).gm)
    /\ TRUE

\* GenerationManager::bulk_add_to_generation0
BulkAddToGeneration0(new_ids) ==
    /\ GenerationManagerSet(
           bulk_add_to_generation0(collector.generation_manager, new_ids).gm)
    /\ TRUE

\* GenerationManager::promote_generation
PromoteGeneration(from_gen, first) ==
    /\ GenerationManagerSet(
           promote_generation(collector.generation_manager, from_gen, first).gm)
    /\ TRUE

\* ObjectGraph::add_object
GraphAddObject(o) ==
    /\ graph' = ObjectGraph_add_object(graph, o)
    /\ UNCHANGED <<collector, enabled, thresholds, ids, sync, boundary,
                   secondary, panicked>>
    /\ Host

\* ObjectGraph::remove_object
GraphRemoveObject(o) ==
    /\ graph' = ObjectGraph_remove_object(graph, o)
    /\ UNCHANGED <<collector, enabled, thresholds, ids, sync, boundary,
                   secondary, panicked>>
    /\ Host

\* the entries of all Vecs of referrers
referrer_count(g) ==
    LET RECURSIVE sum(_)
        sum(S) == IF S = {} THEN 0
                  ELSE LET b == CHOOSE x \in S : TRUE
                       IN Len(g.reverse_references[b]) + sum(S \ {b})
    IN sum(Objs)

\* ObjectGraph::add_reference
GraphAddReference(a, b, ref_type) ==
    /\ reference_count(graph) < MaxEdges
    /\ referrer_count(graph) < MaxEdges
    /\ graph' = ObjectGraph_add_reference(graph, a, b, ref_type).g
    /\ UNCHANGED <<collector, enabled, thresholds, ids, sync, boundary,
                   secondary, panicked>>
    /\ Host

\* ObjectGraph::remove_reference
GraphRemoveReference(a, b) ==
    /\ graph' = ObjectGraph_remove_reference(graph, a, b).g
    /\ UNCHANGED <<collector, enabled, thresholds, ids, sync, boundary,
                   secondary, panicked>>
    /\ Host

\* a holder of o, or of a clone of o, calls PyObject::incref; a panic
\* unwinds the caller, the other holders go on
PyObjectIncref(o, overflow_checks) ==
    /\ \E r \in {PyObject_incref(refcount[o], overflow_checks)} :
           /\ refcount' = [refcount EXCEPT ![o] = r.refcount]
           /\ panicked' = (panicked \/ r.panic)
    /\ UNCHANGED <<collector, enabled, thresholds, data, payload, has_finalizer,
                   ids, sync, boundary, secondary, graph>>

\* a holder of o, or of a clone of o, calls PyObject::decref
PyObjectDecref(o) ==
    /\ \E r \in {PyObject_decref(refcount[o])} :
           /\ refcount' = [refcount EXCEPT ![o] = r.refcount]
           /\ panicked' = (panicked \/ r.panic)
    /\ UNCHANGED <<collector, enabled, thresholds, data, payload, has_finalizer,
                   ids, sync, boundary, secondary, graph>>

\* the collections counted after generation n was collected
collected_generation(sec, n) ==
    IF n = 0 THEN [sec EXCEPT ![1] = @ + 1]
    ELSE IF n = 1 THEN [sec EXCEPT ![1] = 0, ![2] = @ + 1]
    ELSE [g \in 1..2 |-> 0]

\* the collector and the counts after a call returned r for generation n
Counted(r, n) ==
    /\ WithinBounds(r.c)
    /\ collector' = AtRest(r.c)
    /\ IF r.err = "Ok"
       THEN /\ \A g \in 1..2 : collected_generation(secondary, n)[g] <= MaxPasses
            /\ secondary' = collected_generation(secondary, n)
       ELSE UNCHANGED secondary

\* GarbageCollector::collect_generation, counted
CollectGenerationCounted(n, first) ==
    /\ \E r \in {GarbageCollector_collect_generation(collector, enabled, n, first)} :
           Counted(r, n)
    /\ UNCHANGED <<enabled, thresholds, ids, sync, boundary, graph, panicked>>
    /\ Host

\* GarbageCollector::collect_if_needed, counted
CollectIfNeededCounted(first) ==
    /\ IF enabled /\ collect_if_needed_generation(collector) # -1
       THEN \E r \in {GarbageCollector_collect_if_needed(collector, enabled, first)} :
                Counted(r, collect_if_needed_generation(collector))
       ELSE UNCHANGED <<collector, secondary>>
    /\ UNCHANGED <<enabled, thresholds, ids, sync, boundary, graph, panicked>>
    /\ Host

\* py_gc_collect_generation: outside 0..=2 it returns before it reaches the
\* facade, inside it is the facade's collect_generation
PyGcCollectGeneration(n, first) ==
    IF n \in 0..2
    THEN CollectGeneration(n, first)
    ELSE UNCHANGED vars

\* PyObject::incref, by the host on a reference it takes
Incref(o) ==
    /\ refcount[o] < MaxRefcount
    /\ refcount' = [refcount EXCEPT ![o] = @ + 1]
    /\ UNCHANGED <<collector, enabled, thresholds, others, data, payload, has_finalizer>>

\* PyObject::decref, by the host on a reference it drops: one that no
\* payload holds, and not the last one (the host frees the object then)
Decref(o) ==
    /\ refcount[o] > InRefs(o, Objs)
    /\ refcount[o] > 1
    /\ refcount' = [refcount EXCEPT ![o] = @ - 1]
    /\ UNCHANGED <<collector, enabled, thresholds, others, data, payload, has_finalizer>>

\* the host stores a reference to p in o's container and counts it
AddReference(o, p) ==
    /\ data[o] = "List"
    /\ refcount[p] < MaxRefcount
    /\ payload' = [payload EXCEPT ![o][p] = @ + 1]
    /\ refcount' = [refcount EXCEPT ![p] = @ + 1]
    /\ UNCHANGED <<collector, enabled, thresholds, others, data, has_finalizer>>

\* the host removes a reference to p from o's container
RemoveReference(o, p) ==
    /\ payload[o][p] > 0
    /\ refcount[p] > 1
    /\ payload' = [payload EXCEPT ![o][p] = @ - 1]
    /\ refcount' = [refcount EXCEPT ![p] = @ - 1]
    /\ UNCHANGED <<collector, enabled, thresholds, others, data, has_finalizer>>

\* ObjectId::new
ObjectId_new(counter) ==
    LET r == fetch_add(counter) IN [id |-> r.ret, counter |-> r.counter]

\* a thread makes an object: PyObject::new calls ObjectId::new
PyObjectNew(t) ==
    /\ Len(issued) < MaxIds
    /\ COUNTER' = ObjectId_new(COUNTER).counter
    /\ issued' = Append(issued, [id |-> ObjectId_new(COUNTER).id, by |-> t])
    /\ UNCHANGED <<collector, enabled, thresholds, sync, boundary, aux>>
    /\ Host

\* a collection starts: the first line of Collector::collect_generation
\* calls ObjectId::new; the collector is caller 0
CollectorNewId ==
    /\ Len(issued) < MaxIds
    /\ COUNTER' = ObjectId_new(COUNTER).counter
    /\ issued' = Append(issued, [id |-> ObjectId_new(COUNTER).id, by |-> 0])
    /\ UNCHANGED <<collector, enabled, thresholds, sync, boundary, aux>>
    /\ Host

\* ----------------------------------------- threads around the RwLock
\* parking_lot's RwLock: a writer excludes everyone, a reader excludes
\* writers
can_lock(l, mode) ==
    IF mode = "write" THEN l.writer = 0 /\ l.readers = {} ELSE l.writer = 0

do_lock(l, mode, t) ==
    IF mode = "write" THEN [l EXCEPT !.writer = t]
    ELSE [l EXCEPT !.readers = l.readers \cup {t}]

\* the guard is dropped when the call returns
unlock(l, t) ==
    [writer |-> IF l.writer = t THEN 0 ELSE l.writer, readers |-> l.readers \ {t}]

collect_generation_guard_read == "read"

\* GarbageCollector::collect_generation and collect: self.collector.write()
collect_generation_guard == "write"

\* GarbageCollector::get_stats and get_count: self.collector.read()
get_stats_guard == "read"

Frame == UNCHANGED <<enabled, thresholds, ids, boundary, aux>> /\ Host

Goto(t, at) == pc' = [pc EXCEPT ![t].at = at]

\* the call returns: its guard is dropped
Return(t) ==
    /\ lock' = unlock(lock, t)
    /\ pc' = [pc EXCEPT ![t] = [at |-> "idle", generation |-> 0]]

\* a thread calls GarbageCollector::collect_generation(n), or collect()
\* with n = 2; the disabled facade returns at once
CallCollect(t, n) ==
    /\ pc[t].at = "idle"
    /\ enabled
    /\ pc' = [pc EXCEPT ![t] = [at |-> "lock", generation |-> n]]
    /\ UNCHANGED <<collector, lock>>
    /\ Frame

\* let mut collector = self.collector.write()
LockCollect(t) ==
    /\ pc[t].at = "lock"
    /\ can_lock(lock, collect_generation_guard)
    /\ lock' = do_lock(lock, collect_generation_guard, t)
    /\ Goto(t, "start")
    /\ UNCHANGED collector
    /\ Frame

\* Collector::collect_generation up to start_collection(generation)?
PassStart(t) ==
    /\ pc[t].at = "start"
    /\ LET r == start_collection(collector.generation_manager, pc[t].generation)
       IN /\ collector' = [collector EXCEPT !.generation_manager = r.gm]
          /\ IF r.err = "Ok" THEN Goto(t, "merge") /\ UNCHANGED lock ELSE Return(t)
    /\ Frame

\* self.merge_younger_generations(generation)?
PassMerge(t, first) ==
    /\ pc[t].at = "merge"
    /\ LET r == merge_younger_generations(collector, pc[t].generation, first)
       IN /\ collector' = r.c
          /\ IF r.err = "Ok" THEN Goto(t, "update") /\ UNCHANGED lock ELSE Return(t)
    /\ Frame

\* collect_main: the is_empty test and update_refs
PassUpdate(t) ==
    /\ pc[t].at = "update"
    /\ IF is_empty(Gen(collector, pc[t].generation))
       THEN Goto(t, "promote") /\ UNCHANGED collector
       ELSE /\ collector' = update_refs(collector, pc[t].generation)
            /\ Goto(t, "subtract")
    /\ UNCHANGED lock
    /\ Frame

\* collect_main: subtract_refs
PassSubtract(t) ==
    /\ pc[t].at = "subtract"
    /\ collector' = subtract_refs(collector, pc[t].generation)
    /\ Goto(t, "clear")
    /\ UNCHANGED lock
    /\ Frame

\* collect_main: move_unreachable, handle_finalizers, clear_unreachable
PassClear(t) ==
    /\ pc[t].at = "clear"
    /\ LET r == clear_unreachable(collector,
                    move_unreachable(collector, pc[t].generation))
       IN /\ WithinBounds(r.c)
          /\ collector' = r.c
    /\ Goto(t, "restore")
    /\ UNCHANGED lock
    /\ Frame

\* collect_main: restore_refs
PassRestore(t) ==
    /\ pc[t].at = "restore"
    /\ collector' = AtRest(restore_refs(collector, pc[t].generation))
    /\ Goto(t, "promote")
    /\ UNCHANGED lock
    /\ Frame

\* if generation < 2 { promote_generation(generation)? }
PassPromote(t, first) ==
    /\ pc[t].at = "promote"
    /\ LET r == IF pc[t].generation < 2
                THEN promote_generation(collector.generation_manager,
                                        pc[t].generation, first)
                ELSE [err |-> "Ok", gm |-> collector.generation_manager]
       IN /\ collector' = [collector EXCEPT !.generation_manager = r.gm]
          /\ IF r.err = "Ok" THEN Goto(t, "end") /\ UNCHANGED lock ELSE Return(t)
    /\ Frame

\* end_collection(); Ok(collected)
PassEnd(t) ==
    /\ pc[t].at = "end"
    /\ collector' = [collector EXCEPT
                        !.generation_manager = end_collection(collector.generation_manager)]
    /\ Return(t)
    /\ Frame

\* a thread calls GarbageCollector::get_stats
CallGetStats(t) ==
    /\ pc[t].at = "idle"
    /\ Goto(t, "rlock")
    /\ UNCHANGED <<collector, lock>>
    /\ Frame

\* let collector = self.collector.read()
LockGetStats(t) ==
    /\ pc[t].at = "rlock"
    /\ can_lock(lock, get_stats_guard)
    /\ lock' = do_lock(lock, get_stats_guard, t)
    /\ Goto(t, "reading")
    /\ UNCHANGED collector
    /\ Frame

\* collector.get_stats(), and the call returns
ReadStats(t) ==
    /\ pc[t].at = "reading"
    /\ Return(t)
    /\ UNCHANGED collector
    /\ Frame

\* GarbageCollector::track and untrack need &mut self: the facade's owner,
\* or the global module's outer write lock, lets them run only while no
\* other call of the facade is under way
Exclusive == \A t \in Threads : pc[t].at = "idle"

\* GarbageCollector::track from a thread
ExclusiveTrack(o) == Exclusive /\ Track(o, FALSE)

\* GarbageCollector::untrack from a thread
ExclusiveUntrack(o) == Exclusive /\ Untrack(o)

\* ------------------------------------------------ the C boundary, ffi.rs
\* The statics after a boundary function returned r
Statics_set(r) ==
    /\ GC' = r.b.GC
    /\ collector' = r.b.collector
    /\ enabled' = r.b.enabled
    /\ thresholds' = r.b.thresholds
    /\ AUTOMATIC_TRACKING' = r.b.AUTOMATIC_TRACKING
    /\ OBJECT_REGISTRY' = r.b.OBJECT_REGISTRY
    /\ REFCOUNT_CALLBACKS' = r.b.REFCOUNT_CALLBACKS
    /\ REFERENCE_TRACKING' = r.b.REFERENCE_TRACKING
    /\ UNCOLLECTABLE_OBJECTS' = r.b.UNCOLLECTABLE_OBJECTS

\* What no boundary function writes
HostFrame == UNCHANGED <<refcount, data, payload, has_finalizer, ids, sync, aux>>

PyGcInit == (\E r \in {py_gc_init(Statics)} : Statics_set(r)) /\ HostFrame

PyGcCleanup == (\E r \in {py_gc_cleanup(Statics)} : Statics_set(r)) /\ HostFrame

PyGcEnable == (\E r \in {py_gc_enable(Statics)} : Statics_set(r)) /\ HostFrame

PyGcDisable == (\E r \in {py_gc_disable(Statics)} : Statics_set(r)) /\ HostFrame

PyGcEnableAutomaticTracking ==
    (\E r \in {py_gc_enable_automatic_tracking(Statics)} : Statics_set(r)) /\ HostFrame

PyGcDisableAutomaticTracking ==
    (\E r \in {py_gc_disable_automatic_tracking(Statics)} : Statics_set(r)) /\ HostFrame

PyGcTrack(p) == (\E r \in {py_gc_track(Statics, p)} : Statics_set(r)) /\ HostFrame

PyGcUntrack(p) == (\E r \in {py_gc_untrack(Statics, p)} : Statics_set(r)) /\ HostFrame

\* py_gc_collect_generation, py_gc_collect and py_gc_collect_if_needed
\* return before they reach the facade while GC is None
PyGcCollectGenerationOn(n, first) ==
    IF GC THEN PyGcCollectGeneration(n, first) ELSE UNCHANGED vars

PyGcCollect(first) ==
    IF GC THEN Collect(first) ELSE UNCHANGED vars

PyGcCollectIfNeeded(first) ==
    IF GC THEN CollectIfNeeded(first) ELSE UNCHANGED vars

PyGcSetThreshold(g, t) == (\E r \in {py_gc_set_threshold(Statics, g, t)} : Statics_set(r)) /\ HostFrame

PyGcAddReference(p, q) == (\E r \in {py_gc_add_reference(Statics, p, q)} : Statics_set(r)) /\ HostFrame

PyGcRemoveReference(p, q) ==
    (\E r \in {py_gc_remove_reference(Statics, p, q)} : Statics_set(r)) /\ HostFrame

PyGcMarkUncollectable(p) ==
    (\E r \in {py_gc_mark_uncollectable(Statics, p)} : Statics_set(r)) /\ HostFrame

PyGcUnmarkUncollectable(p) ==
    (\E r \in {py_gc_unmark_uncollectable(Statics, p)} : Statics_set(r)) /\ HostFrame

PyGcObjectCreated(p) == (\E r \in {py_gc_object_created(Statics, p)} : Statics_set(r)) /\ HostFrame

PyGcObjectDestroyed(p) == (\E r \in {py_gc_object_destroyed(Statics, p)} : Statics_set(r)) /\ HostFrame

PyGcRefcountChanged(p, old_count, new_count, first) ==
    /\ \E r \in {py_gc_refcount_changed(Statics, p, old_count, new_count,
                                         IF p = 0 THEN 0 ELSE refcount[p], first)} :
           Statics_set(r)
    /\ HostFrame

Next ==
    \/ Enable
    \/ Disable
    \/ \E o \in Objs, t \in BOOLEAN : Track(o, t)
    \/ \E o \in Objs : Untrack(o)
    \/ \E n \in GenArgs, first \in SUBSET Objs : CollectGeneration(n, first)
    \/ \E first \in SUBSET Objs : Collect(first)
    \/ \E first \in SUBSET Objs : CollectIfNeeded(first)
    \/ ClearUncollectable
    \/ \E o \in Objs : Incref(o)
    \/ \E o \in Objs : Decref(o)

Spec == Init /\ [][Next]_vars

\* The enabled collector over containers that the host links into graphs
InitGraph ==
    /\ Init
    /\ \A o \in Objs : data[o] = "List"

NextGraph ==
    \/ \E o \in Objs, t \in BOOLEAN : Track(o, t)
    \/ \E o \in Objs : Untrack(o)
    \/ \E n \in GenArgs, first \in SUBSET Objs : CollectGeneration(n, first)
    \/ \E first \in SUBSET Objs : Collect(first)
    \/ \E o \in Objs : Incref(o)
    \/ \E o \in Objs : Decref(o)
    \/ \E o, p \in Objs : AddReference(o, p)
    \/ \E o, p \in Objs : RemoveReference(o, p)

SpecGraph == InitGraph /\ [][NextGraph]_vars

\* The facade with its thresholds, and the boundary's collect_generation
NextThresholds ==
    \/ Enable
    \/ Disable
    \/ \E g \in GenArgs, t \in ThresholdArgs : SetThreshold(g, t)
    \/ \E o \in Objs, t \in BOOLEAN : Track(o, t)
    \/ \E o \in Objs : Untrack(o)
    \/ \E n \in GenArgs, first \in SUBSET Objs : CollectGeneration(n, first)
    \/ \E n \in GenArgs, first \in SUBSET Objs : PyGcCollectGeneration(n, first)
    \/ \E first \in SUBSET Objs : CollectIfNeeded(first)

\* plain containers, made by PyObject::new
InitThresholds ==
    /\ Init
    /\ \A o \in Objs : data[o] = "List" /\ ~has_finalizer[o]

SpecThresholds == InitThresholds /\ [][NextThresholds]_vars

\* the process starts: no ObjectId has been handed out
InitIds ==
    /\ InitFacade
    /\ \A o \in Objs : data[o] = "List" /\ ~has_finalizer[o]
    /\ COUNTER = COUNTER_new
    /\ issued = <<>>
    /\ InitSync
    /\ InitBoundary
    /\ InitAux

\* Threads and the collector draw ObjectIds
NextIds ==
    \/ \E t \in Threads : PyObjectNew(t)
    \/ CollectorNewId

SpecIds == InitIds /\ [][NextIds]_vars

\* Threads that call the facade's collect_generation and get_stats
\* concurrently, each pass one phase at a time
NextConcurrent ==
    \/ \E o \in Objs : ExclusiveTrack(o)
    \/ \E o \in Objs : ExclusiveUntrack(o)
    \/ \E o \in Objs : Incref(o)
    \/ \E o \in Objs : Decref(o)
    \/ \E t \in Threads, n \in Generations : CallCollect(t, n)
    \/ \E t \in Threads : LockCollect(t)
    \/ \E t \in Threads : PassStart(t)
    \/ \E t \in Threads, first \in SUBSET Objs : PassMerge(t, first)
    \/ \E t \in Threads : PassUpdate(t)
    \/ \E t \in Threads : PassSubtract(t)
    \/ \E t \in Threads : PassClear(t)
    \/ \E t \in Threads : PassRestore(t)
    \/ \E t \in Threads, first \in SUBSET Objs : PassPromote(t, first)
    \/ \E t \in Threads : PassEnd(t)
    \/ \E t \in Threads : CallGetStats(t)
    \/ \E t \in Threads : LockGetStats(t)
    \/ \E t \in Threads : ReadStats(t)

SpecConcurrent == InitThresholds /\ [][NextConcurrent]_vars

\* A collector whose debug flags the host switches
NextDebug ==
    \/ \E flags \in {0, 32} : SetDebug(flags)
    \/ \E o \in Objs, t \in BOOLEAN : Track(o, t)
    \/ \E o \in Objs : Untrack(o)
    \/ \E n \in GenArgs, first \in SUBSET Objs : CollectGeneration(n, first)
    \/ \E o \in Objs : Incref(o)
    \/ \E o \in Objs : Decref(o)

SpecDebug == InitThresholds /\ [][NextDebug]_vars

\* A collector whose generations were made by Generation::new with
\* thresholds small enough to be reached
InitPolicy ==
    /\ enabled = TRUE
    /\ thresholds = GarbageCollector_new_thresholds
    /\ \E th \in [Generations -> 1..MaxThreshold] :
           collector = [Collector_new EXCEPT !.generation_manager.generations =
                            [g \in Generations |-> Generation_new(th[g])]]
    /\ refcount = [o \in Objs |-> 1]
    /\ data = [o \in Objs |-> "List"]
    /\ has_finalizer = [o \in Objs |-> FALSE]
    /\ payload = [o \in Objs |-> [p \in Objs |-> 0]]
    /\ COUNTER = NumObjs + 1
    /\ issued = [i \in Objs |-> [id |-> i, by |-> 1]]
    /\ InitSync
    /\ InitBoundary
    /\ InitAux

\* The facade's calls, with the collections of each generation counted
NextPolicy ==
    \/ \E o \in Objs : Track(o, FALSE)
    \/ \E o \in Objs : Untrack(o)
    \/ \E o \in Objs : Incref(o)
    \/ \E o \in Objs : Decref(o)
    \/ \E n \in Generations, first \in SUBSET Objs : CollectGenerationCounted(n, first)
    \/ \E first \in SUBSET Objs : CollectIfNeededCounted(first)

SpecPolicy == InitPolicy /\ [][NextPolicy]_vars

\* A caller that uses Generation and GenerationManager directly
NextGenerations ==
    \/ \E g \in Generations, o \in Objs : GenAddObject(g, o)
    \/ \E g \in Generations, o \in Objs : GenRemoveObject(g, o)
    \/ \E g \in Generations : GenClear(g)
    \/ \E o \in Objs : AddToGeneration0(o)
    \/ \E o \in Objs : AddToGeneration0Fast(o)
    \/ \E new_ids \in SUBSET Objs : BulkAddToGeneration0(new_ids)
    \/ \E from_gen \in Generations, first \in SUBSET Objs :
           PromoteGeneration(from_gen, first)

SpecGenerations == InitThresholds /\ [][NextGenerations]_vars

\* A caller that builds and edits an ObjectGraph
NextObjectGraph ==
    \/ \E o \in Objs : GraphAddObject(o)
    \/ \E o \in Objs : GraphRemoveObject(o)
    \/ \E a \in Objs, b \in Objs, ref_type \in ReferenceTypes :
           GraphAddReference(a, b, ref_type)
    \/ \E a \in Objs, b \in Objs : GraphRemoveReference(a, b)

SpecObjectGraph == InitThresholds /\ [][NextObjectGraph]_vars

\* Holders of objects that call incref and decref as they please
NextRefcount ==
    \/ \E o \in Objs, overflow_checks \in BOOLEAN : PyObjectIncref(o, overflow_checks)
    \/ \E o \in Objs : PyObjectDecref(o)

SpecRefcount == InitThresholds /\ [][NextRefcount]_vars

\* arguments of py_gc_set_threshold, the invalid ones included
BoundaryGenArgs == {-1, 0, 3}
BoundaryThresholdArgs == {-1, 1}

\* A host that drives the collector through the C boundary only
NextBoundary ==
    \/ PyGcInit
    \/ PyGcCleanup
    \/ PyGcEnable
    \/ PyGcDisable
    \/ PyGcEnableAutomaticTracking
    \/ PyGcDisableAutomaticTracking
    \/ \E p \in Ptrs : PyGcTrack(p)
    \/ \E p \in Ptrs : PyGcUntrack(p)
    \/ \E n \in -1..3, first \in SUBSET Objs : PyGcCollectGenerationOn(n, first)
    \/ \E first \in SUBSET Objs : PyGcCollect(first)
    \/ \E first \in SUBSET Objs : PyGcCollectIfNeeded(first)
    \/ \E g \in BoundaryGenArgs, t \in BoundaryThresholdArgs : PyGcSetThreshold(g, t)
    \/ \E p \in Ptrs, q \in Ptrs : PyGcAddReference(p, q)
    \/ \E p \in Ptrs, q \in Ptrs : PyGcRemoveReference(p, q)
    \/ \E p \in Ptrs : PyGcMarkUncollectable(p)
    \/ \E p \in Ptrs : PyGcUnmarkUncollectable(p)
    \/ \E p \in Ptrs : PyGcObjectCreated(p)
    \/ \E p \in Ptrs : PyGcObjectDestroyed(p)
    \/ \E p \in Ptrs, c \in 0..1, first \in SUBSET Objs :
           PyGcRefcountChanged(p, 1, c, first)

SpecBoundary == InitThresholds /\ [][NextBoundary]_vars

\* ----------------------------------------------------------- properties
Firsts == SUBSET Objs

\* the generations that hold a copy of o
GensOf(c, o) == {g \in Generations : o \in Ids(Gen(c, g))}

\* the set S a collection of generation n examines: generations 0..n
CollectedSet(c, n) == UNION {Ids(Gen(c, i)) : i \in 0..n}

\* the objects reachable from R through payload references
RECURSIVE ReachFrom(_)
ReachFrom(R) ==
    LET more == R \cup {p \in Objs : \E o \in R : payload[o][p] > 0}
    IN IF more = R THEN R ELSE ReachFrom(more)

\* the members of S that are referenced from outside S, and all they reach
KeptAlive(S) == ReachFrom({o \in S : refcount[o] > InRefs(o, S)})

\* the objects a pass over generation n finds with a shadow count of 0
FoundUnreachable(c, n, first) ==
    LET m == merge_younger_generations(c, n, first).c
    IN IF is_empty(Gen(m, n)) THEN {}
       ELSE move_unreachable(subtract_refs(update_refs(m, n), n), n)

\* C1: a collection of generation n that succeeds drops from the tracked
\* table no object of the collected set S whose refcount exceeds the
\* references to it from S, and no object reachable from such an object;
\* it returns 0 when all of S is kept alive that way.
C1_KeptAliveSurvives ==
    \A n \in Generations, first \in Firsts :
        LET r == GarbageCollector_collect_generation(collector, enabled, n, first)
            S == CollectedSet(collector, n)
        IN (enabled /\ r.err = "Ok") =>
              /\ KeptAlive(S) \cap collector.tracked_objects \subseteq r.c.tracked_objects
              /\ (S \subseteq KeptAlive(S)) => r.ret = 0

\* a set of objects without finalizers that only reference each other
IsGarbage(G) ==
    \A o \in G : ~has_finalizer[o] /\ refcount[o] = InRefs(o, G \ {o})

\* C2: collect() reclaims every set of tracked objects without finalizers
\* whose refcounts are all accounted for by references from the other
\* members: they leave the tracked table, and the returned number and the
\* drop of get_count() cover them.
C2_CyclesReclaimed ==
    \A first \in Firsts :
        LET r == GarbageCollector_collect(collector, enabled, first)
        IN (enabled /\ r.err = "Ok") =>
              \A G \in (SUBSET collector.tracked_objects) \ {{}} :
                  IsGarbage(G) =>
                      /\ G \cap r.c.tracked_objects = {}
                      /\ r.ret >= Cardinality(G)
                      /\ GarbageCollector_get_count(r.c)
                            <= GarbageCollector_get_count(collector) - Cardinality(G)

\* C3: every tracked object is in exactly one generation.
C3_ExactlyOneGeneration ==
    \A o \in collector.tracked_objects : Cardinality(GensOf(collector, o)) = 1

\* C4: a collection never drops an object whose has_finalizer flag is true
\* from the tracked table; when the pass finds it unreachable it appends
\* it to the uncollectable list.
C4_FinalizerNeverDropped ==
    \A n \in Generations, first \in Firsts :
        LET r == GarbageCollector_collect_generation(collector, enabled, n, first)
        IN (enabled /\ r.err = "Ok") =>
              \A o \in collector.tracked_objects :
                  has_finalizer[o] =>
                      /\ o \in r.c.tracked_objects
                      /\ o \in FoundUnreachable(collector, n, first) =>
                            r.c.uncollectable[o] = collector.uncollectable[o] + 1

\* the SAVEALL bit (32) of the debug flags
SaveAll(flags) == (flags \div 32) % 2 = 1

\* C5: every object in the uncollectable list has has_finalizer = true,
\* unless the SAVEALL debug bit is set.
C5_UncollectableHasFinalizer ==
    \A o \in Objs :
        collector.uncollectable[o] > 0 =>
            has_finalizer[o] \/ SaveAll(collector.debug_flags)

\* C6: when collect() is called twice in a row, the second call returns 0.
C6_SecondCollectReclaimsNothing ==
    \A f1 \in Firsts, f2 \in Firsts :
        LET r1 == GarbageCollector_collect(collector, enabled, f1)
            r2 == GarbageCollector_collect(r1.c, enabled, f2)
        IN (r1.err = "Ok" /\ r2.err = "Ok") => r2.ret = 0

\* no copy held by a generation has its collecting bit set
NoCollectingBits(c) ==
    \A g \in Generations : \A x \in Ids(Gen(c, g)) :
        /\ ~Gen(c, g).objects[x].collecting
        /\ (Gen(c, g).objects[x].gc_prev \div 2) % 2 = 0

\* C7: after a collect_generation(n), collect() or collect_if_needed() that
\* returns success, no object held in any generation has its collecting bit
\* set (the header has no unreachable bit).
C7_BitsClearedAfterCollection ==
    \A n \in GenArgs, first \in Firsts :
        /\ LET r == GarbageCollector_collect_generation(collector, enabled, n, first)
           IN r.err = "Ok" => NoCollectingBits(r.c)
        /\ LET r == GarbageCollector_collect(collector, enabled, first)
           IN r.err = "Ok" => NoCollectingBits(r.c)
        /\ LET r == GarbageCollector_collect_if_needed(collector, enabled, first)
           IN r.err = "Ok" => NoCollectingBits(r.c)

\* a successful pass over a collected set that holds survivors and garbage
C7_Witness ==
    /\ enabled
    /\ \E n \in Generations, first \in Firsts :
          LET r == GarbageCollector_collect_generation(collector, enabled, n, first)
          IN /\ r.err = "Ok"
             /\ r.ret > 0
             /\ \E x \in CollectedSet(collector, n) : x \in r.c.tracked_objects
             /\ \E x \in CollectedSet(collector, n) :
                    update_refs(collector, n).generation_manager.generations[n]
                        .objects[x].collecting

\* C8: with k objects, all kept alive from outside and holding no
\* references, tracked in generation 0 of a fresh collector, collect()
\* returns 0 and leaves generation 0 with count 0 and generation 1 with
\* count k.
C8_SurvivorsPromotedToGeneration1 ==
    LET k == Gen(collector, 0).count
    IN (/\ enabled
        /\ k > 0
        /\ collector.tracked_objects = Ids(Gen(collector, 0))
        /\ Ids(Gen(collector, 1)) = {} /\ Ids(Gen(collector, 2)) = {}
        /\ collector.generation_manager.collecting_generation = -1
        /\ uncollectable_len(collector, Objs) = 0
        /\ \A o \in collector.tracked_objects :
              /\ refcount[o] > InRefs(o, Objs)
              /\ \A p \in Objs : payload[o][p] = 0)
       => \A first \in Firsts :
             LET r == GarbageCollector_collect(collector, enabled, first)
             IN /\ r.err = "Ok"
                /\ r.ret = 0
                /\ Gen(r.c, 0).count = 0
                /\ Gen(r.c, 1).count = k

\* C9: with the collector enabled, track(o) of an untracked object o and
\* then untrack(o.id) both succeed and leave get_count() as it was.
C9_TrackUntrackRoundTrip ==
    enabled =>
        \A o \in Objs \ collector.tracked_objects :
            LET r1 == GarbageCollector_track(collector, enabled, o, FALSE)
                r2 == GarbageCollector_untrack(r1.c, enabled, o)
            IN /\ r1.err = "Ok"
               /\ r2.err = "Ok"
               /\ GarbageCollector_get_count(r2.c) = GarbageCollector_get_count(collector)

\* the round trip of an object that an earlier pass promoted and that was
\* untracked since, next to another tracked object
C9_Witness ==
    /\ enabled
    /\ collector.tracked_objects # {}
    /\ \E o \in Objs \ collector.tracked_objects :
          LET r1 == GarbageCollector_track(collector, enabled, o, FALSE)
              r2 == GarbageCollector_untrack(r1.c, enabled, o)
          IN /\ GensOf(collector, o) # {}
             /\ o \in r1.c.tracked_objects
             /\ GarbageCollector_get_count(r1.c) = GarbageCollector_get_count(collector) + 1
             /\ r2.err = "Ok"
             /\ o \notin r2.c.tracked_objects

\* C10: untrack(id) of an id that is not tracked returns NotTracked and
\* changes nothing; after track(A), the first untrack(A.id) succeeds, the
\* second returns NotTracked and get_count() is back at its value.
C10_UntrackUnknownIsNotTracked ==
    \A o \in Objs \ collector.tracked_objects :
        /\ LET r == GarbageCollector_untrack(collector, enabled, o)
           IN r.err = "NotTracked" /\ r.c = collector
        /\ LET r1 == GarbageCollector_track(collector, enabled, o, FALSE)
               r2 == GarbageCollector_untrack(r1.c, enabled, o)
               r3 == GarbageCollector_untrack(r2.c, enabled, o)
           IN r1.err = "Ok" =>
                 /\ r2.err = "Ok"
                 /\ r3.err = "NotTracked"
                 /\ GarbageCollector_get_count(r3.c) = GarbageCollector_get_count(collector)

\* C11: after untrack(id) returns success on the enabled collector, no
\* generation holds the object, whichever generation held it before, and
\* the count of each generation that held it has dropped by one.
C11_UntrackLeavesNoGeneration ==
    enabled =>
        \A o \in Objs :
            LET r == GarbageCollector_untrack(collector, enabled, o)
            IN r.err = "Ok" =>
                  /\ GensOf(r.c, o) = {}
                  /\ \A g \in GensOf(collector, o) :
                        Gen(r.c, g).count = Gen(collector, g).count - 1

\* C12: on the enabled collector, track(o) of an object that is tracked
\* returns AlreadyTracked and changes nothing, whether the caller passes a
\* fresh copy (gc_tracked false) or a copy marked tracked, and in whichever
\* generation the object is.
C12_TrackTrackedIsAlreadyTracked ==
    enabled =>
        \A o \in collector.tracked_objects, t \in BOOLEAN :
            (t => collector.uncollectable[o] > 0) =>
                LET r == GarbageCollector_track(collector, enabled, o, t)
                IN r.err = "AlreadyTracked" /\ r.c = collector

\* C13: while the collector is disabled, track, collect,
\* collect_generation and collect_if_needed return success and leave the
\* collector (tracked table, generations, uncollectable list) unchanged;
\* get_count() does not grow.
C13_DisabledIsNoOp ==
    ~enabled =>
        /\ \A o \in Objs, t \in BOOLEAN :
              LET r == GarbageCollector_track(collector, enabled, o, t)
              IN /\ r.err = "Ok"
                 /\ r.c = collector
                 /\ GarbageCollector_get_count(r.c) <= GarbageCollector_get_count(collector)
        /\ \A n \in GenArgs, first \in Firsts :
              LET r == GarbageCollector_collect_generation(collector, enabled, n, first)
              IN r.err = "Ok" /\ r.c = collector
        /\ \A first \in Firsts :
              /\ LET r == GarbageCollector_collect(collector, enabled, first)
                 IN r.err = "Ok" /\ r.c = collector
              /\ LET r == GarbageCollector_collect_if_needed(collector, enabled, first)
                 IN r.err = "Ok" /\ r.c = collector

\* the disabled collector in a state where the enabled one would act: an
\* object that track would add and a collection that would reclaim
C13_Witness ==
    /\ ~enabled
    /\ collector.tracked_objects # {}
    /\ \E o \in Objs : GarbageCollector_track(collector, TRUE, o, FALSE).c # collector
    /\ \E first \in Firsts : GarbageCollector_collect(collector, TRUE, first).ret > 0

\* C14: while the collector is disabled, untrack(id) of a tracked object
\* succeeds and get_count() drops by one, untrack of an untracked id
\* returns NotTracked, and both do what they do when enabled.
C14_UntrackWorksWhileDisabled ==
    ~enabled =>
        \A o \in Objs :
            LET r == GarbageCollector_untrack(collector, enabled, o)
            IN /\ r = GarbageCollector_untrack(collector, TRUE, o)
               /\ IF o \in collector.tracked_objects
                  THEN /\ r.err = "Ok"
                       /\ GarbageCollector_get_count(r.c)
                             = GarbageCollector_get_count(collector) - 1
                  ELSE r.err = "NotTracked"

\* no generation is marked as being collected
Idle(c) == c.generation_manager.collecting_generation = -1

\* C15: after set_threshold(0, t) with t >= 1, once t objects are tracked
\* in generation 0 of the enabled, idle collector, needs_collection() is
\* true, and after the collect_if_needed() that follows it is false.
C15_ThresholdDrivesCollection ==
    \A t \in ThresholdArgs \ {0} :
        (/\ enabled
         /\ Idle(collector)
         /\ GarbageCollector_get_threshold(thresholds, 0) = <<t>>
         /\ Gen(collector, 0).count = t
         /\ Ids(Gen(collector, 0)) \subseteq collector.tracked_objects)
        => /\ GarbageCollector_needs_collection(collector)
           /\ \A first \in Firsts :
                 LET r == GarbageCollector_collect_if_needed(collector, enabled, first)
                 IN r.err = "Ok" /\ ~GarbageCollector_needs_collection(r.c)

\* C16: for every generation g in {0,1,2} and every threshold t,
\* set_threshold(g, t) succeeds, get_threshold(g) then returns t and
\* get_threshold of the other two generations returns what it returned
\* before; the thresholds of a fresh collector are 700, 10, 10.
C16_SetThenGetThreshold ==
    /\ \A g \in Generations, t \in ThresholdArgs :
          LET r == GarbageCollector_set_threshold(thresholds, g, t)
          IN /\ r.err = "Ok"
             /\ GarbageCollector_get_threshold(r.th, g) = <<t>>
             /\ \A h \in Generations \ {g} :
                   GarbageCollector_get_threshold(r.th, h)
                       = GarbageCollector_get_threshold(thresholds, h)
    /\ GarbageCollector_get_threshold(GarbageCollector_new_thresholds, 0) = <<700>>
    /\ GarbageCollector_get_threshold(GarbageCollector_new_thresholds, 1) = <<10>>
    /\ GarbageCollector_get_threshold(GarbageCollector_new_thresholds, 2) = <<10>>

\* set_threshold has given the three generations three different
\* thresholds, one of them still the default
C16_Witness ==
    /\ GarbageCollector_get_threshold(thresholds, 0) = <<MaxThreshold>>
    /\ GarbageCollector_get_threshold(thresholds, 1) = <<10>>
    /\ GarbageCollector_get_threshold(thresholds, 2) = <<0>>

\* C17: on the enabled, idle collector collect_generation(n) with n >= 3
\* returns InvalidGeneration at the facade, and return code -4 at the
\* boundary.
C17_InvalidGenerationRejected ==
    (enabled /\ Idle(collector)) =>
        \A n \in GenArgs \ Generations, first \in Firsts :
            /\ GarbageCollector_collect_generation(collector, enabled, n, first).err
                  = "InvalidGeneration"
            /\ py_gc_collect_generation(collector, enabled, n, first).code = -4

\* C18: collect_generation(n) and set_threshold(n, t) with n >= 3 leave
\* the collector (tracked table, generations, uncollectable list,
\* active-collection marker) and the thresholds as they were.
C18_InvalidGenerationMutatesNothing ==
    \A n \in GenArgs \ Generations :
        /\ \A first \in Firsts :
              /\ GarbageCollector_collect_generation(collector, enabled, n, first).c
                    = collector
              /\ py_gc_collect_generation(collector, enabled, n, first).c = collector
        /\ \A t \in ThresholdArgs :
              LET r == GarbageCollector_set_threshold(thresholds, n, t)
              IN r.err # "Ok" /\ r.th = thresholds

\* the enabled, idle collector with tracked objects in an older
\* generation and thresholds that set_threshold has changed
C18_Witness ==
    /\ enabled
    /\ Idle(collector)
    /\ collector.tracked_objects \cap (Ids(Gen(collector, 1)) \cup Ids(Gen(collector, 2))) # {}
    /\ thresholds # GarbageCollector_new_thresholds
    /\ \E n \in GenArgs \ Generations, first \in Firsts :
          GarbageCollector_collect_generation(collector, enabled, n, first).err # "Ok"

\* C19: while a generation is marked as being collected,
\* collect_generation(n) of the collector, and of the enabled facade,
\* returns CollectionInProgress and leaves the collector (tracked table,
\* generations, marker) as it was.
C19_NestedCollectionRejected ==
    ~Idle(collector) =>
        \A n \in GenArgs, first \in Firsts :
            /\ LET r == collect_generation(collector, n, first)
               IN r.err = "CollectionInProgress" /\ r.c = collector
            /\ enabled =>
                  LET r == GarbageCollector_collect_generation(collector, enabled, n, first)
                  IN r.err = "CollectionInProgress" /\ r.c = collector

\* a generation is marked as being collected while the enabled collector
\* holds tracked objects
C19_Witness ==
    /\ enabled
    /\ ~Idle(collector)
    /\ collector.tracked_objects # {}
    /\ \E n \in Generations : ~is_empty(Gen(collector, n))

\* C20: after a collect_generation call on the idle collector returns,
\* with success or with an error, no generation is marked as being
\* collected, so the next collect() is not rejected with
\* CollectionInProgress.
C20_CollectionReturnsToIdle ==
    (enabled /\ Idle(collector)) =>
        \A n \in GenArgs, f1 \in Firsts, f2 \in Firsts :
            LET r == GarbageCollector_collect_generation(collector, enabled, n, f1)
            IN /\ Idle(r.c)
               /\ GarbageCollector_collect(r.c, enabled, f2).err # "CollectionInProgress"

\* thread t is between the first and the last phase of a collection pass
InPass(t) ==
    pc[t].at \in {"start", "merge", "update", "subtract", "clear", "restore",
                  "promote", "end"}

\* C21: the passes that threads request concurrently through the facade
\* are totally ordered: while one thread is inside a pass no other thread
\* is inside a pass or reading the statistics; a pass starts, and a
\* get_stats reads, only in a state where the preceding pass has cleared
\* every collecting bit.
C21_PassesTotallyOrdered ==
    /\ \A t \in Threads : \A u \in Threads \ {t} :
          InPass(t) => ~InPass(u) /\ pc[u].at # "reading"
    /\ \A t \in Threads :
          pc[t].at \in {"start", "reading"} => NoCollectingBits(collector)

\* one thread is in the middle of a pass, with collecting bits set, while
\* the other waits for the lock with a get_stats or a collect call
C21_Witness ==
    \E t \in Threads : \E u \in Threads \ {t} :
        /\ pc[t].at \in {"subtract", "clear", "restore"}
        /\ ~NoCollectingBits(collector)
        /\ pc[u].at \in {"lock", "rlock"}

\* C22: the ObjectIds handed out, to whichever thread and to the collector,
\* are non-zero and strictly increasing in the order of allocation, hence
\* pairwise different.
C22_ObjectIdsUnique ==
    /\ \A i \in DOMAIN issued : issued[i].id # 0
    /\ \A i \in DOMAIN issued, j \in DOMAIN issued :
          i < j => issued[i].id < issued[j].id
    /\ \A i \in DOMAIN issued, j \in DOMAIN issued :
          i # j => issued[i].id # issued[j].id

\* ids were drawn by two threads and by the collector, interleaved
C22_Witness ==
    /\ Len(issued) = MaxIds
    /\ \A t \in Threads : \E i \in DOMAIN issued : issued[i].by = t
    /\ \E i \in DOMAIN issued : issued[i].by = 0
    /\ issued[1].by # issued[2].by

\* r is the result of a boundary function on a null pointer: Internal,
\* and the statics are as they were
NullRejected(r) == r.code = -5 /\ r.b = Statics

\* C23: every boundary function that takes an object pointer and returns
\* a return code returns Internal (-5) for the null pointer, in every
\* lifecycle state, with automatic tracking on or off, and changes no
\* registry or collector state.
C23_NullPointerIsInternal ==
    /\ NullRejected(py_gc_track(Statics, 0))
    /\ NullRejected(py_gc_untrack(Statics, 0))
    /\ NullRejected(py_gc_mark_uncollectable(Statics, 0))
    /\ NullRejected(py_gc_unmark_uncollectable(Statics, 0))
    /\ NullRejected(py_gc_object_destroyed(Statics, 0))
    /\ \A q \in Ptrs :
           /\ NullRejected(py_gc_add_reference(Statics, 0, q))
           /\ NullRejected(py_gc_add_reference(Statics, q, 0))
           /\ NullRejected(py_gc_remove_reference(Statics, 0, q))
           /\ NullRejected(py_gc_remove_reference(Statics, q, 0))
    /\ NullRejected(py_gc_object_created(Statics, 0))
    /\ \A c \in 0..1, first \in SUBSET Objs :
           NullRejected(py_gc_refcount_changed(Statics, 0, 1, c, 0, first))

\* C24: with the SAVEALL debug bit (32) set, every object a collection
\* removes from the tracked table is in the uncollectable list after the
\* collection.
C24_SaveAllQuarantines ==
    \A n \in Generations, first \in Firsts :
        LET r == GarbageCollector_collect_generation(collector, enabled, n, first)
        IN (enabled /\ r.err = "Ok" /\ SaveAll(collector.debug_flags)) =>
              \A o \in collector.tracked_objects \ r.c.tracked_objects :
                  r.c.uncollectable[o] > 0

\* C25: a successful boundary track(ptr) puts the object into generation 0
\* of the collector, so that get_count() and get_generation_count(0) each
\* grow by one and the object is among those a later collect examines; a
\* successful boundary untrack(ptr) undoes this.
C25_BoundaryTrackReachesGeneration0 ==
    \A p \in Ptrs \ {0} :
        LET t == py_gc_track(Statics, p)
            u == py_gc_untrack(t.b, p)
        IN (GC /\ t.code = 0) =>
              /\ py_gc_get_count(t.b) = py_gc_get_count(Statics) + 1
              /\ py_gc_get_generation_count(t.b, 0)
                    = py_gc_get_generation_count(Statics, 0) + 1
              /\ p \in Ids(Gen(t.b.collector, 0))
              /\ u.code = 0 =>
                    /\ py_gc_get_count(u.b) = py_gc_get_count(Statics)
                    /\ py_gc_get_generation_count(u.b, 0)
                          = py_gc_get_generation_count(Statics, 0)
                    /\ p \notin Ids(Gen(u.b.collector, 0))

\* C26: the boundary lifecycle is a two-state machine.  init always
\* succeeds and leaves is_initialized 1 with the collector enabled and
\* empty; cleanup always succeeds, leaves is_initialized 0 and empties the
\* pointer registry, the reference table and the garbage list; while
\* uninitialized, enable, disable, collect, collect_generation,
\* collect_if_needed, set_threshold and get_stats return Internal (-5) and
\* is_enabled returns 0.
C26_BoundaryLifecycle ==
    LET i == py_gc_init(Statics)
        c == py_gc_cleanup(Statics)
    IN /\ i.code = 0
       /\ py_gc_is_initialized(i.b) = 1
       /\ py_gc_is_enabled(i.b) = 1
       /\ i.b.collector.tracked_objects = {}
       /\ \A g \in Generations : py_gc_get_generation_count(i.b, g) = 0
       /\ c.code = 0
       /\ py_gc_is_initialized(c.b) = 0
       /\ c.b.OBJECT_REGISTRY = {}
       /\ \A p \in Ptrs \ {0} : c.b.REFERENCE_TRACKING[p] = {}
       /\ c.b.UNCOLLECTABLE_OBJECTS = <<>>
       /\ py_gc_is_initialized(Statics) = 0 =>
             /\ py_gc_enable(Statics).code = -5
             /\ py_gc_disable(Statics).code = -5
             /\ \A first \in Firsts :
                    /\ py_gc_collect(Statics, first).code = -5
                    /\ py_gc_collect_if_needed(Statics, first).code = -5
                    /\ \A n \in -1..3 :
                           py_gc_collect_generation_on(Statics, n, first).code = -5
             /\ \A g \in BoundaryGenArgs, t \in BoundaryThresholdArgs :
                    py_gc_set_threshold(Statics, g, t).code = -5
             /\ \A stats_is_null \in BOOLEAN :
                    py_gc_get_stats(Statics, stats_is_null).code = -5
             /\ py_gc_is_enabled(Statics) = 0

\* an initialized, disabled collector with a retuned threshold, while the
\* registry, the reference table and the garbage list have entries: init
\* and cleanup both have something to reset
C26_Witness ==
    /\ GC
    /\ ~enabled
    /\ thresholds # GarbageCollector_new_thresholds
    /\ OBJECT_REGISTRY # {}
    /\ \E p \in Ptrs \ {0} : REFERENCE_TRACKING[p] # {}
    /\ UNCOLLECTABLE_OBJECTS # <<>>

\* C27: after the subtract_refs step of a collection over the set S, the
\* shadow count of every object o of S is refcount(o) minus the number of
\* payload references to o from objects of S.
C27_SubtractLeavesExternalRefs ==
    \A n \in Generations, first \in Firsts :
        LET m == merge_younger_generations(collector, n, first)
            S == Ids(Gen(m.c, n))
            c2 == subtract_refs(update_refs(m.c, n), n)
        IN (m.err = "Ok" /\ Idle(collector)) =>
              \A o \in S :
                  Gen(c2, n).objects[o].gc_refs = refcount[o] - InRefs(o, S)

\* A and B are tracked, reference each other, and no reference to either
\* comes from elsewhere; only A has a finalizer
FinalizerCycle(A, B) ==
    /\ {A, B} \subseteq collector.tracked_objects
    /\ has_finalizer[A] /\ ~has_finalizer[B]
    /\ payload[A][B] > 0 /\ payload[B][A] > 0
    /\ refcount[A] = InRefs(A, {A, B})
    /\ refcount[B] = InRefs(B, {A, B})

\* C28: for the cycle A <-> B with only A having a finalizer and no
\* external reference, collect() returns 0 and the uncollectable list
\* holds both A and B (length 2): the object without a finalizer that the
\* finalizer object reaches is quarantined, not reclaimed.
C28_FinalizerCycleQuarantined ==
    \A A \in Objs : \A B \in Objs \ {A} : \A first \in Firsts :
        LET r == GarbageCollector_collect(collector, enabled, first)
        IN (/\ FinalizerCycle(A, B)
            /\ enabled /\ r.err = "Ok"
            /\ uncollectable_len(collector, Objs) = 0) =>
              /\ r.ret = 0
              /\ r.c.uncollectable[A] > 0
              /\ r.c.uncollectable[B] > 0
              /\ uncollectable_len(r.c, Objs) = 2

\* C29: every object a collection reclaims is removed from the tracked
\* table and from the generation that held it: after the collection it is
\* in no generation, and the generations' counts, which are the numbers of
\* objects they hold, do not include it.
C29_ReclaimedLeavesGeneration ==
    \A n \in Generations, first \in Firsts :
        LET r == GarbageCollector_collect_generation(collector, enabled, n, first)
        IN (enabled /\ r.err = "Ok") =>
              \A o \in collector.tracked_objects \ r.c.tracked_objects :
                  /\ GensOf(r.c, o) = {}
                  /\ \A g \in Generations :
                         Gen(r.c, g).count = Cardinality(Ids(Gen(r.c, g)) \ {o})

\* C30: collecting generation n collects generations 0..n and promotes the
\* survivors.  After collect_generation(n) returned success every
\* generation younger than n is empty (count 0); for n < 2 generation n is
\* empty too, and the survivors of its former content and of the merged
\* younger generations are in generation n+1, next to what that generation
\* held; for n = 2 they stay in generation 2; the generations beyond are
\* untouched.
C30_CollectMergesAndPromotes ==
    \A n \in Generations, first \in Firsts :
        LET r == GarbageCollector_collect_generation(collector, enabled, n, first)
            survivors == CollectedSet(collector, n) \cap r.c.tracked_objects
            target == IF n < 2 THEN n + 1 ELSE 2
        IN (enabled /\ r.err = "Ok") =>
              /\ \A g \in 0..(target - 1) :
                     Gen(r.c, g).count = 0 /\ Ids(Gen(r.c, g)) = {}
              /\ survivors \subseteq Ids(Gen(r.c, target))
              /\ Ids(Gen(collector, target)) \subseteq Ids(Gen(r.c, target))
              /\ \A g \in (target + 1)..2 : Gen(r.c, g) = Gen(collector, g)

\* generation 0 and generation 1 each hold a tracked object that the next
\* pass keeps, and collect_generation(1) succeeds: it merges generation 0
\* into generation 1 and promotes both objects to generation 2
C30_Witness ==
    \E o \in Objs : \E p \in Objs \ {o} :
        /\ enabled
        /\ {o, p} \subseteq collector.tracked_objects
        /\ o \in Ids(Gen(collector, 1)) /\ p \in Ids(Gen(collector, 0))
        /\ \A first \in Firsts :
               LET r == GarbageCollector_collect_generation(collector, enabled, 1, first)
               IN /\ r.err = "Ok"
                  /\ {o, p} \subseteq r.c.tracked_objects
                  /\ {o, p} \subseteq Ids(Gen(r.c, 2))

\* the generation the counts of collections call for: 2 when generation 1
\* was collected threshold(2) times since generation 2 was, else 1 when
\* generation 0 was collected threshold(1) times since generation 1 was,
\* else 0 when its population reached threshold(0), else none (-1)
SecondaryChoice(c, sec) ==
    IF sec[2] >= Gen(c, 2).threshold THEN 2
    ELSE IF sec[1] >= Gen(c, 1).threshold THEN 1
    ELSE IF Gen(c, 0).count >= Gen(c, 0).threshold THEN 0
    ELSE -1

\* C31: collect_if_needed chooses the generation from the secondary
\* counters: generation 2 only when generation 1 was collected at least
\* threshold(2) times since the last generation-2 collection, else
\* generation 1 only when generation 0 was collected at least threshold(1)
\* times since the last generation-1 collection, else generation 0 when
\* its population reached threshold(0), else nothing; the populations of
\* generations 1 and 2 never trigger a collection.
C31_ChoiceFromSecondaryCounters ==
    (enabled /\ Idle(collector)) =>
        collect_if_needed_generation(collector) = SecondaryChoice(collector, secondary)

\* C32: in every state reachable through the public operations of
\* Generation and GenerationManager each generation's count is the number
\* of objects the generation holds; a rejected add_object and a rejected
\* remove_object leave count and content unchanged.
C32_CountIsPopulation ==
    /\ \A g \in Generations :
           Gen(collector, g).count = Cardinality(Ids(Gen(collector, g)))
    /\ \A g \in Generations, o \in Objs :
           LET a == add_object(Gen(collector, g), o, PyGCHead_new)
               r == remove_object(Gen(collector, g), o)
           IN /\ a.err # "Ok" => a.g = Gen(collector, g)
              /\ r.err # "Ok" => r.g = Gen(collector, g)

\* the slices of roots: every sequence of up to NumObjs ids
RootSlices == UNION {[1..n -> Objs] : n \in 0..NumObjs}

\* R and every id reachable from R along Direct and Finalizer edges
RECURSIVE StrongReach(_, _)
StrongReach(g, R) ==
    LET more == R \cup {b \in Objs : \E a \in R : \E i \in 1..Len(g.references[a]) :
                            /\ g.references[a][i].to = b
                            /\ g.references[a][i].reference_type # "Weak"}
    IN IF more = R THEN R ELSE StrongReach(g, more)

\* C33: find_reachable(roots) returns exactly the roots plus every object
\* reachable from a root along direct and finalizer-link edges; an object
\* whose only paths from the roots pass through a weak edge is not in the
\* result and is in find_unreachable(roots).
C33_ReachableIgnoresWeakEdges ==
    \A roots \in RootSlices :
        LET R == {roots[i] : i \in 1..Len(roots)}
        IN /\ find_reachable(graph, roots) = StrongReach(graph, R)
           /\ \A o \in graph.objects \ StrongReach(graph, R) :
                  /\ o \notin find_reachable(graph, roots)
                  /\ o \in find_unreachable(graph, roots)

\* the forward table has an edge from a to b
HasEdge(g, a, b) == b \in Targets(g.references[a])

\* C34: the reverse-reference table is the exact inverse of the forward
\* table after any sequence of add_object, remove_object, add_reference
\* and remove_reference: a is among the referrers of b if and only if the
\* forward list of a holds an edge to b.
C34_ReverseIsInverse ==
    \A a \in Objs, b \in Objs :
        a \in Referrers(graph.reverse_references[b]) <=> HasEdge(graph, a, b)

\* the orders in which a HashMap may yield the keys of objects
KeyOrders(g) ==
    {keys \in [1..Cardinality(g.objects) -> g.objects] :
        \A i, j \in 1..Cardinality(g.objects) : i # j => keys[i] # keys[j]}

\* R and every id reachable from R along edges of any type
RECURSIVE AnyReach(_, _)
AnyReach(g, R) ==
    LET more == R \cup {b \in Objs : \E a \in R : HasEdge(g, a, b)}
    IN IF more = R THEN R ELSE AnyReach(g, more)

\* the forward graph has a directed cycle: some id reaches itself in one
\* step or more
HasCycle(g) == \E a \in Objs : a \in AnyReach(g, Targets(g.references[a]))

\* each element has an edge to the next and the last to the first
IsRealCycle(g, cycle) ==
    /\ cycle # <<>>
    /\ \A i \in 1..(Len(cycle) - 1) : HasEdge(g, cycle[i], cycle[i + 1])
    /\ HasEdge(g, cycle[Len(cycle)], cycle[1])

\* the graph is one 2-cycle: two objects with one edge each, to the other
OneTwoCycle(g) ==
    \E a \in g.objects : \E b \in g.objects \ {a} :
        /\ Len(g.references[a]) = 1 /\ g.references[a][1].to = b
        /\ Len(g.references[b]) = 1 /\ g.references[b][1].to = a
        /\ \A c \in Objs \ {a, b} : g.references[c] = <<>>

\* C35: detect_cycles() returns a non-empty list exactly when the forward
\* graph has a directed cycle, a self-loop included; every returned list
\* is a real cycle; and a graph made of one 2-cycle yields exactly one
\* cycle, of length 2.
C35_DetectCyclesIsExact ==
    \A keys \in KeyOrders(graph) :
        LET cycles == detect_cycles(graph, keys)
        IN /\ cycles # <<>> <=> HasCycle(graph)
           /\ \A i \in 1..Len(cycles) : IsRealCycle(graph, cycles[i])
           /\ OneTwoCycle(graph) =>
                  Len(cycles) = 1 /\ Len(cycles[1]) = 2

\* one object points to a second one that has a self-loop: a cycle that
\* starts inside the path of the search
C35_Witness ==
    \E a \in graph.objects : \E b \in graph.objects \ {a} :
        /\ HasEdge(graph, a, b) /\ HasEdge(graph, b, b)
        /\ ~HasEdge(graph, b, a)
        /\ \E keys \in KeyOrders(graph) :
               keys[1] = a /\ detect_cycles(graph, keys) = << <<b>> >>

\* C36: a new object has refcount 1 and is untracked; incref and decref
\* return the new count and change it by exactly one; decref on an object
\* whose refcount is 0 is a fatal error and leaves no wrapped-around
\* refcount for a later reader.
C36_RefcountStepsByOne ==
    /\ PyObject_new.refcount = 1 /\ ~PyObject_new.gc_tracked
    /\ \A o \in Objs :
           LET d == PyObject_decref(refcount[o])
           IN /\ refcount[o] + 1 \in Usize =>
                    \A overflow_checks \in BOOLEAN :
                        LET i == PyObject_incref(refcount[o], overflow_checks)
                        IN /\ ~i.panic
                           /\ i.ret = refcount[o] + 1
                           /\ i.refcount = refcount[o] + 1
              /\ refcount[o] > 0 =>
                    /\ ~d.panic
                    /\ d.ret = refcount[o] - 1
                    /\ d.refcount = refcount[o] - 1
              /\ refcount[o] = 0 =>
                    /\ d.panic
                    /\ d.refcount = 0

\* C37: in every state reached by track, untrack and collect calls
\* get_stats().total_tracked equals the sum of the three
\* generation_counts.
C37_StatsAreConsistent ==
    LET stats == get_stats(collector)
    IN stats.total_tracked
          = stats.generation_counts[0] + stats.generation_counts[1]
               + stats.generation_counts[2]

\* C38: the uncollectable list holds each object at most once, after any
\* number of collections, and get_stats().uncollectable never exceeds the
\* number of objects ever tracked.
C38_UncollectableHoldsEachOnce ==
    /\ \A o \in Objs : collector.uncollectable[o] <= 1
    /\ get_stats(collector).uncollectable <= NumObjs

\* the union of the three generations' contents
Contents(gm) == UNION {Ids(gm.generations[g]) : g \in Generations}

\* C39: promotion and merging conserve objects: promote_generation(from)
\* with from < 2 and the merge step of collect_generation leave the union
\* of the three generations' contents unchanged, also when the call
\* returns an error.
C39_PromotionConservesObjects ==
    LET gm == collector.generation_manager
    IN \A first \in Firsts :
          /\ \A from_gen \in 0..1 :
                 Contents(promote_generation(gm, from_gen, first).gm) = Contents(gm)
          /\ \A n \in Generations :
                 Contents(merge_younger_generations(collector, n, first)
                             .c.generation_manager) = Contents(gm)
====
